---- MODULE Spec2Model ----
(***************************************************************************)
(* The chunk streaming pipeline of MCPP (src/src/Game/World/ChunkManager). *)
(*                                                                         *)
(* One consumer thread (the render loop: update, reloadAllChunks, render,  *)
(* getBlock, ~ChunkManager), two generation workers and                    *)
(* max(2, hardware_concurrency) - 2 meshing workers share m_chunks         *)
(* (guarded by m_chunkMutex) and the three queues (guarded by m_taskMutex, *)
(* with the condition variable m_taskCV).  Every lock acquisition, every   *)
(* critical section and every computation done outside a lock is one step. *)
(*                                                                         *)
(* The world is cut down to one row of chunk coordinates (x, 0, 0), so the *)
(* Euclidean distance of update is |dx|.  A chunk's block grid is          *)
(* abstracted to "empty" (the zero-initialised m_blocks), "partial"        *)
(* (Chunk::generate is part-way through it) and "terrain" (generated).     *)
(***************************************************************************)
EXTENDS Integers, Sequences, FiniteSets, TLC

VARIABLES
    hw,                 \* std::thread::hardware_concurrency()
    noise,              \* which configuration the TerrainNoise generators hold
    sampled,            \* worker -> the oldest configuration its generate call has sampled
    drained,            \* how many records this call of update has taken off m_uploadQueue
    m_chunks,           \* coordinate -> Chunk
    m_generationQueue,
    m_meshingQueue,
    m_uploadQueue,
    m_shutdown,
    m_chunkMutex,       \* owner of the collection mutex, or Free
    m_taskMutex,        \* owner of the queue mutex, or Free
    pc,                 \* thread -> position in its code
    coords,             \* worker -> its local `coords` (<<>> before it is assigned)
    chunkPtr,           \* worker -> its local `chunkPtr`
    vertices,           \* meshing worker -> its local `vertices`
    playerChunk,        \* update's `playerChunk` (x of the chunk coordinate)
    toLoad,             \* update's `toLoad`
    i,                  \* update's upload-loop counter
    task,               \* update's `task` (<<>> when none is held)
    \* One Chunk and the mesher on their own, for the functions that involve
    \* no other thread:
    m_blocks,           \* the Chunk's block grid, cell -> block id
    m_dirty,            \* the Chunk's dirty flag
    outside,            \* the block id the world lookup finds in the neighbouring chunks
    mask,               \* greedyScan2D's `mask`, index y * width + x -> MaskCell
    emitted,            \* the calls greedyScan2D has made of `emit`
    outVertices,        \* buildGreedyMesh's `outVertices`
    call,               \* the last call made of Chunk::getBlock / setBlock, with its result
    chunkPos,           \* the Chunk's chunkPos
    surface             \* the SurfaceManager's terrain noise: its seed and parameters

pureVars == <<m_blocks, m_dirty, outside, mask, emitted, outVertices, call, chunkPos, surface>>

vars == <<hw, noise, sampled, drained, m_chunks, m_generationQueue, m_meshingQueue, m_uploadQueue,
          m_shutdown, m_chunkMutex, m_taskMutex, pc, coords, chunkPtr,
          vertices, playerChunk, toLoad, i, task, pureVars>>

----------------------------------------------------------------------------
(* Bounds and program constants *)

renderDistance == 0
UnloadMargin == 2
NumGenerationWorkers == 2
MAX_UPLOAD_PER_FRAME == 1
MaxInFlight == 2
UploadCap == 2
MaxTweaks == 1

\* update's renderDistance as the source has it, and Chunk::CHUNK_SIZE; the
\* threads are modelled under the scaled-down renderDistance above.
ScanRadius == 24
CHUNK_SIZE == 16

\* The x of the viewpoint in the runs of update alone: positions next to the
\* origin, one chunk apart, and positions from FarX on, one float apart.
NearSteps == 3
FarSteps == 2
FarX == 2^30
ScanQueueCap == 57

\* Chunk::CHUNK_SIZE and Chunk::CHUNK_HEIGHT of the Chunk taken on its own.
GridSize == 2
GridHeight == 2

\* Chunk::CHUNK_HEIGHT, at its own value in the runs of Chunk::generate.
CHUNK_HEIGHT == 128

\* How many seeds the terrain noise is tried with.
NoiseSeeds == 9

\* Width and height of the masks greedyScan2D is run on by itself.
ScanWidth == 3
ScanHeight == 2

\* The block ids in use: 0 is air; OpaqueIds are those the registry marks
\* opaque, the remaining one a block that is neither air nor opaque.
BlockIds == 0..3
OpaqueIds == {1, 2}

\* The most blocks of a meshed grid that are neither air nor opaque.
MaxTranslucent == 1

\* The values hardware_concurrency() is drawn from.
HardwareConcurrency == {0, 1, 2, 3}

\* The viewpoint's chunk before it first moves.
StartChunk == 0

\* The viewpoint's chunk is one of two, far enough apart that each is beyond
\* the other's unload radius.
PlayerChunks == {StartChunk, StartChunk + renderDistance + UnloadMargin + 1}

Free == <<"free", 0>>
Main == <<"main", 0>>

Coord(x) == <<x, 0, 0>>

----------------------------------------------------------------------------
(* Threads *)

threads(h) == IF h > 2 THEN h ELSE 2

m_generationWorkers == {<<"gen", k>> : k \in 1..NumGenerationWorkers}

\* The meshing pool the constructor starts when hardware_concurrency() is h.
MeshingPool(h) == {<<"mesh", k>> : k \in 1..(threads(h) - 2)}

m_meshingWorkers == MeshingPool(hw)

Workers == m_generationWorkers \cup m_meshingWorkers

IsGen(w) == w[1] = "gen"

\* The threads blocked in m_taskCV.wait.
Waiting == {w \in Workers : pc[w] = "waiting"}

----------------------------------------------------------------------------
(* Helpers *)

Abs(n) == IF n < 0 THEN -n ELSE n

\* The spacing of the floats around a (a >= 0): 24 bits of significand.
RECURSIVE Ulp(_)
Ulp(a) == IF a < 16777216 THEN 1 ELSE 2 * Ulp(a \div 2)

\* The conversion of the int n to float that glm::vec2(int, int) performs:
\* the nearest float, ties to the even significand.
ToFloat(n) ==
    LET a == Abs(n)
        u == Ulp(a)
        lo == (a \div u) * u
        r == a - lo
        near == IF 2 * r < u THEN lo
                ELSE IF 2 * r > u THEN lo + u
                ELSE IF (lo \div u) % 2 = 0 THEN lo ELSE lo + u
    IN  IF n < 0 THEN -near ELSE near

\* glm::distance of two coordinates of the row, as vec2 of floats: with equal
\* z it is |dx|, and the subtraction of the two floats is exact.
Dist(c, px) == Abs(ToFloat(c[1]) - ToFloat(px))

\* The coordinates the scan of update(playerChunk = px) finds with
\* dist <= r, r being its renderDistance.
InRadius(px, r) == {c \in {Coord(x) : x \in (px - r)..(px + r)} : Dist(c, px) <= r}

\* The coordinates of S that the unload pass erases.
Far(S, px, r) == {c \in S : Dist(c, px) > r + UnloadMargin}

\* The coordinates update's scan visits with dist <= renderDistance.
LoadSet(px) == InRadius(px, renderDistance)

MinX(S) == CHOOSE c \in S : \A d \in S : c[1] <= d[1]

RECURSIVE InScanOrder(_)
InScanOrder(S) == IF S = {} THEN <<>>
                  ELSE <<MinX(S)>> \o InScanOrder(S \ {MinX(S)})

Range(q) == {q[k] : k \in 1..Len(q)}

\* Every order in which the unordered_map may be iterated.
IterationOrders(S) ==
    {q \in [1..Cardinality(S) -> S] : Range(q) = S}

\* A chunk: its grid (`blocks`), the oldest sampler configuration among the
\* columns the grid holds (`config`; 0 while it holds none), the vertex list
\* it was last given and how many times uploadMesh has been applied to it.
NewChunk == [blocks |-> "empty", config |-> 0, mesh |-> <<>>, uploads |-> 0]

Min(a, b) == IF a < b THEN a ELSE b

InFlight ==
    Len(m_generationQueue) + Len(m_meshingQueue) + Len(m_uploadQueue)
    + Cardinality({w \in Workers : coords[w] # <<>>})

----------------------------------------------------------------------------
(* Initial state: the ChunkManager has been constructed *)

Constructed ==
    /\ hw \in HardwareConcurrency
    /\ noise = 0
    /\ drained = 0
    /\ sampled = [w \in m_generationWorkers |-> 0]
    /\ m_chunks = <<>>
    /\ m_generationQueue = <<>>
    /\ m_meshingQueue = <<>>
    /\ m_uploadQueue = <<>>
    /\ m_shutdown = FALSE
    /\ m_chunkMutex = Free
    /\ m_taskMutex = Free
    /\ pc = [t \in Workers \cup {Main} |-> IF t = Main THEN "idle" ELSE "loop"]
    /\ coords = [w \in Workers |-> <<>>]
    /\ chunkPtr = [w \in Workers |-> "null"]
    /\ vertices = [w \in m_meshingWorkers |-> <<>>]
    /\ playerChunk = StartChunk
    /\ toLoad = <<>>
    /\ i = 0
    /\ task = <<>>

\* No Chunk is under test on its own.
PureIdle ==
    /\ m_blocks = <<>>
    /\ m_dirty = FALSE
    /\ outside = 0
    /\ mask = <<>>
    /\ emitted = <<>>
    /\ outVertices = <<>>
    /\ call = <<>>
    /\ chunkPos = <<0, 0, 0>>
    /\ surface = <<>>

Init == Constructed /\ PureIdle

mainVars == <<playerChunk, toLoad, i, task>>
queueVars == <<m_generationQueue, m_meshingQueue, m_uploadQueue>>
workerLocals == <<coords, chunkPtr, vertices>>
threadVars == <<hw, noise, sampled, drained, m_chunks, queueVars, m_shutdown,
                m_chunkMutex, m_taskMutex, pc, workerLocals, mainVars>>

----------------------------------------------------------------------------
(* Condition variable m_taskCV *)

\* notify_all: every thread blocked in wait goes on to re-acquire the mutex.
NotifyAll(p) == [t \in DOMAIN p |-> IF p[t] = "waiting" THEN "lock_q" ELSE p[t]]

----------------------------------------------------------------------------
(* generationWorker and meshingWorker: the part they share *)

QueueOf(w) == IF IsGen(w) THEN m_generationQueue ELSE m_meshingQueue

\* while (!m_shutdown)
WorkerLoop(w) ==
    /\ pc[w] = "loop"
    /\ pc' = [pc EXCEPT ![w] = IF m_shutdown THEN "done" ELSE "lock_q"]
    /\ UNCHANGED <<pureVars, hw, noise, sampled, drained, m_chunks, queueVars, m_shutdown, m_chunkMutex,
                   m_taskMutex, workerLocals, mainVars>>

\* std::unique_lock<std::mutex> lock(m_taskMutex), and the re-acquisition of
\* the mutex by a thread leaving m_taskCV.wait
LockTask(w) ==
    /\ pc[w] = "lock_q"
    /\ m_taskMutex = Free
    /\ m_taskMutex' = w
    /\ pc' = [pc EXCEPT ![w] = "wait_check"]
    /\ UNCHANGED <<pureVars, hw, noise, sampled, drained, m_chunks, queueVars, m_shutdown, m_chunkMutex,
                   workerLocals, mainVars>>

\* The predicate of m_taskCV.wait, evaluated with the mutex held, and what
\* follows when it is true: break on shutdown, else take the front item.
WaitCheck(w) ==
    /\ pc[w] = "wait_check"
    /\ IF m_shutdown
         THEN /\ pc' = [pc EXCEPT ![w] = "done"]
              /\ m_taskMutex' = Free
              /\ UNCHANGED <<queueVars, coords>>
       ELSE IF QueueOf(w) # <<>>
         THEN /\ coords' = [coords EXCEPT ![w] = Head(QueueOf(w))]
              /\ IF IsGen(w)
                   THEN /\ m_generationQueue' = Tail(m_generationQueue)
                        /\ UNCHANGED m_meshingQueue
                   ELSE /\ m_meshingQueue' = Tail(m_meshingQueue)
                        /\ UNCHANGED m_generationQueue
              /\ m_taskMutex' = Free
              /\ pc' = [pc EXCEPT ![w] = "lookup_lock"]
              /\ UNCHANGED m_uploadQueue
         ELSE /\ pc' = [pc EXCEPT ![w] = "wait_block"]
              /\ UNCHANGED <<m_taskMutex, queueVars, coords>>
    /\ UNCHANGED <<pureVars, hw, noise, sampled, drained, m_chunks, m_shutdown, m_chunkMutex, chunkPtr, vertices,
                   mainVars>>

\* The predicate was false: wait releases the mutex and blocks, atomically.
Block(w) ==
    /\ pc[w] = "wait_block"
    /\ m_taskMutex' = Free
    /\ pc' = [pc EXCEPT ![w] = "waiting"]
    /\ UNCHANGED <<pureVars, hw, noise, sampled, drained, m_chunks, queueVars, m_shutdown, m_chunkMutex,
                   workerLocals, mainVars>>

\* A condition variable may wake a waiter without any notification.
SpuriousWakeup(w) ==
    /\ pc[w] = "waiting"
    /\ pc' = [pc EXCEPT ![w] = "lock_q"]
    /\ UNCHANGED <<pureVars, hw, noise, sampled, drained, m_chunks, queueVars, m_shutdown, m_chunkMutex,
                   m_taskMutex, workerLocals, mainVars>>

\* std::lock_guard<std::mutex> lock(m_chunkMutex)
LockChunk(w) ==
    /\ pc[w] = "lookup_lock"
    /\ m_chunkMutex = Free
    /\ m_chunkMutex' = w
    /\ pc' = [pc EXCEPT ![w] = "lookup"]
    /\ UNCHANGED <<pureVars, hw, noise, sampled, drained, m_chunks, queueVars, m_shutdown, m_taskMutex,
                   workerLocals, mainVars>>

\* Lookup as it would be with m_chunks[coords] in place of find: an absent
\* coordinate is inserted and the worker goes on with it.
LookupInserting(w) ==
    /\ pc[w] = "lookup"
    /\ m_chunks' = [c \in DOMAIN m_chunks \cup {coords[w]} |->
                      IF c \in DOMAIN m_chunks THEN m_chunks[c] ELSE NewChunk]
    /\ chunkPtr' = [chunkPtr EXCEPT ![w] = "valid"]
    /\ pc' = [pc EXCEPT ![w] = IF IsGen(w) THEN "generate" ELSE "mesh"]
    /\ m_chunkMutex' = Free
    /\ UNCHANGED <<pureVars, hw, noise, sampled, drained, queueVars, m_shutdown, m_taskMutex, coords, vertices,
                   mainVars>>

\* m_chunks.find(coords): `continue` when absent, else keep the raw pointer.
Lookup(w) ==
    /\ pc[w] = "lookup"
    /\ IF coords[w] \in DOMAIN m_chunks
         THEN /\ chunkPtr' = [chunkPtr EXCEPT ![w] = "valid"]
              /\ pc' = [pc EXCEPT ![w] = IF IsGen(w) THEN "generate" ELSE "mesh"]
              /\ UNCHANGED coords
         ELSE /\ pc' = [pc EXCEPT ![w] = "loop"]
              /\ coords' = [coords EXCEPT ![w] = <<>>]
              /\ UNCHANGED chunkPtr
    /\ m_chunkMutex' = Free
    /\ UNCHANGED <<pureVars, hw, noise, sampled, drained, m_chunks, queueVars, m_shutdown, m_taskMutex, vertices,
                   mainVars>>

\* std::lock_guard<std::mutex> lock(m_taskMutex) before the push
PushLock(w) ==
    /\ pc[w] = "push_lock"
    /\ m_taskMutex = Free
    /\ m_taskMutex' = w
    /\ pc' = [pc EXCEPT ![w] = "push"]
    /\ UNCHANGED <<pureVars, hw, noise, sampled, drained, m_chunks, queueVars, m_shutdown, m_chunkMutex,
                   workerLocals, mainVars>>

----------------------------------------------------------------------------
(* generationWorker *)

\* The configuration a call of sampleColumn reads.  While the consumer thread
\* is inside updateNoiseGenerators the generators are being replaced under
\* the reader (a data race on freed objects): the sample is that of the old
\* configuration, of the new one, or of neither (Corrupt).
Corrupt == 0 - 1

SampleColumn ==
    IF pc[Main] = "n_update" THEN {noise, noise + 1, Corrupt} ELSE {noise}

\* A write of Chunk::generate through chunkPtr: the grid becomes b and the
\* oldest configuration among its columns v.  Through a dangling pointer it
\* is undefined: the freed storage is either unused (nothing visible
\* changes) or has been handed out again to a chunk now in the collection,
\* whose grid the write then lands in.
WriteBlocks(w, b, v) ==
    IF chunkPtr[w] = "valid"
      THEN m_chunks' = [m_chunks EXCEPT ![coords[w]].blocks = b,
                                        ![coords[w]].config = v]
      ELSE \E tgt \in DOMAIN m_chunks \cup {<<>>} :
              m_chunks' = IF tgt = <<>> THEN m_chunks
                          ELSE [m_chunks EXCEPT ![tgt].blocks = b,
                                                ![tgt].config = v]

\* chunkPtr->generate(m_surfaceManager): the first columns are sampled and
\* written over what the grid held
GenerateBegin(w) ==
    /\ pc[w] = "generate"
    /\ \E v \in SampleColumn :
          /\ sampled' = [sampled EXCEPT ![w] = v]
          /\ WriteBlocks(w, "partial", v)
    /\ pc' = [pc EXCEPT ![w] = "generating"]
    /\ UNCHANGED <<pureVars, hw, noise, drained, queueVars, m_shutdown, m_chunkMutex, m_taskMutex,
                   workerLocals, mainVars>>

\* ... and the last: every column of the grid has been written by this call
GenerateEnd(w) ==
    /\ pc[w] = "generating"
    /\ \E v \in SampleColumn : WriteBlocks(w, "terrain", Min(sampled[w], v))
    /\ sampled' = [sampled EXCEPT ![w] = 0]
    /\ pc' = [pc EXCEPT ![w] = "push_lock"]
    /\ UNCHANGED <<pureVars, hw, noise, drained, queueVars, m_shutdown, m_chunkMutex, m_taskMutex,
                   workerLocals, mainVars>>

\* m_meshingQueue.push(coords), then the lock_guard's scope ends
PushMeshing(w) ==
    /\ pc[w] = "push"
    /\ IsGen(w)
    /\ m_meshingQueue' = Append(m_meshingQueue, coords[w])
    /\ m_taskMutex' = Free
    /\ pc' = [pc EXCEPT ![w] = "notify"]
    /\ UNCHANGED <<pureVars, hw, noise, sampled, drained, m_chunks, m_generationQueue, m_uploadQueue, m_shutdown,
                   m_chunkMutex, workerLocals, mainVars>>

\* m_taskCV.notify_one(): wakes any one of the threads blocked on m_taskCV,
\* generation and meshing workers alike; nothing if none is blocked.
NotifyOne(w) ==
    /\ pc[w] = "notify"
    /\ IF Waiting = {}
         THEN pc' = [pc EXCEPT ![w] = "loop"]
         ELSE \E v \in Waiting :
                 pc' = [pc EXCEPT ![w] = "loop", ![v] = "lock_q"]
    /\ coords' = [coords EXCEPT ![w] = <<>>]
    /\ chunkPtr' = [chunkPtr EXCEPT ![w] = "null"]
    /\ UNCHANGED <<pureVars, hw, noise, sampled, drained, m_chunks, queueVars, m_shutdown, m_chunkMutex,
                   m_taskMutex, vertices, mainVars>>

----------------------------------------------------------------------------
(* meshingWorker *)

\* What a read of the chunk's own grid through chunkPtr returns.  Through a
\* dangling pointer it is undefined: any contents.
OwnBlocks(w) ==
    IF chunkPtr[w] = "valid" THEN {m_chunks[coords[w]].blocks}
    ELSE {"empty", "partial", "terrain"}

\* The configuration of the grid read through chunkPtr; undefined likewise.
OwnConfig(w) ==
    IF chunkPtr[w] = "valid" THEN {m_chunks[coords[w]].config}
    ELSE Corrupt..noise

\* ChunkManager::getBlock at a position of the chunk at coordinate c, as the
\* mesher's getBlockWithNeighbors calls it: air when no chunk is there.
getBlock(c) == IF c \in DOMAIN m_chunks THEN m_chunks[c].blocks ELSE "empty"

\* buildGreedyMesh reads the chunk's own cells: the vertex list starts with
\* what the grid held and the configuration it was sampled under
MeshOwn(w) ==
    /\ pc[w] = "mesh"
    /\ \E b \in OwnBlocks(w), v \in OwnConfig(w) :
          vertices' = [vertices EXCEPT ![w] = <<b, v>>]
    /\ pc' = [pc EXCEPT ![w] = "nbw_lock"]
    /\ UNCHANGED <<pureVars, hw, noise, sampled, drained, m_chunks, queueVars, m_shutdown, m_chunkMutex,
                   m_taskMutex, coords, chunkPtr, mainVars>>

\* getBlock's std::lock_guard<std::mutex> lock(m_chunkMutex), for the border
\* cells toward the neighbour at x - 1 and then toward the one at x + 1
NbLock(w) ==
    /\ pc[w] \in {"nbw_lock", "nbe_lock"}
    /\ m_chunkMutex = Free
    /\ m_chunkMutex' = w
    /\ pc' = [pc EXCEPT ![w] = IF pc[w] = "nbw_lock" THEN "nbw_read" ELSE "nbe_read"]
    /\ UNCHANGED <<pureVars, hw, noise, sampled, drained, m_chunks, queueVars, m_shutdown, m_taskMutex,
                   workerLocals, mainVars>>

NbRead(w) ==
    /\ pc[w] \in {"nbw_read", "nbe_read"}
    /\ LET dx == IF pc[w] = "nbw_read" THEN -1 ELSE 1
       IN  vertices' = [vertices EXCEPT
                          ![w] = Append(@, getBlock(Coord(coords[w][1] + dx)))]
    /\ m_chunkMutex' = Free
    /\ pc' = [pc EXCEPT ![w] = IF pc[w] = "nbw_read" THEN "nbe_lock" ELSE "push_lock"]
    /\ UNCHANGED <<pureVars, hw, noise, sampled, drained, m_chunks, queueVars, m_shutdown, m_taskMutex, coords,
                   chunkPtr, mainVars>>

\* PushUpload as it would be if the meshing worker handed its vertex list to
\* the chunk itself (chunkPtr->uploadMesh(vertices)) instead of queueing it.
PushUploadDirect(w) ==
    /\ pc[w] = "push"
    /\ ~IsGen(w)
    /\ m_chunks' = IF coords[w] \in DOMAIN m_chunks
                     THEN [m_chunks EXCEPT ![coords[w]].mesh = vertices[w],
                                           ![coords[w]].uploads = Min(@ + 1, UploadCap)]
                     ELSE m_chunks
    /\ m_taskMutex' = Free
    /\ pc' = [pc EXCEPT ![w] = "loop"]
    /\ coords' = [coords EXCEPT ![w] = <<>>]
    /\ chunkPtr' = [chunkPtr EXCEPT ![w] = "null"]
    /\ vertices' = [vertices EXCEPT ![w] = <<>>]
    /\ UNCHANGED <<pureVars, hw, noise, sampled, drained, queueVars, m_shutdown,
                   m_chunkMutex, mainVars>>

\* m_uploadQueue.push({coords, std::move(vertices)}); no notification
PushUpload(w) ==
    /\ pc[w] = "push"
    /\ ~IsGen(w)
    /\ m_uploadQueue' = Append(m_uploadQueue,
                               [chunkCoords |-> coords[w], vertices |-> vertices[w]])
    /\ m_taskMutex' = Free
    /\ pc' = [pc EXCEPT ![w] = "loop"]
    /\ coords' = [coords EXCEPT ![w] = <<>>]
    /\ chunkPtr' = [chunkPtr EXCEPT ![w] = "null"]
    /\ vertices' = [vertices EXCEPT ![w] = <<>>]
    /\ UNCHANGED <<pureVars, hw, noise, sampled, drained, m_chunks, m_generationQueue, m_meshingQueue, m_shutdown,
                   m_chunkMutex, mainVars>>

generationWorker(w) ==
    \/ WorkerLoop(w) \/ LockTask(w) \/ WaitCheck(w) \/ Block(w)
    \/ LockChunk(w) \/ Lookup(w)
    \/ GenerateBegin(w) \/ GenerateEnd(w)
    \/ PushLock(w) \/ PushMeshing(w) \/ NotifyOne(w)

meshingWorker(w) ==
    \/ WorkerLoop(w) \/ LockTask(w) \/ WaitCheck(w) \/ Block(w)
    \/ LockChunk(w) \/ Lookup(w)
    \/ MeshOwn(w) \/ NbLock(w) \/ NbRead(w)
    \/ PushLock(w) \/ PushUpload(w)

----------------------------------------------------------------------------
(* ChunkManager::update, on the consumer thread *)

MainAt(l) == pc[Main] = l
MainTo(l) == pc' = [pc EXCEPT ![Main] = l]

\* update(playerPosition) is entered; getChunkCoords gives playerChunk.  New
\* chunks are asked for only while the work in flight leaves room for them.
UpdateEnter(px) ==
    /\ MainAt("idle")
    /\ LET new == LoadSet(px) \ DOMAIN m_chunks
       IN  new = {} \/ InFlight + Cardinality(new) <= MaxInFlight
    /\ playerChunk' = px
    /\ MainTo("u_scan_lock")
    /\ UNCHANGED <<pureVars, hw, noise, sampled, drained, m_chunks, queueVars, m_shutdown, m_chunkMutex,
                   m_taskMutex, workerLocals, toLoad, i, task>>

\* A std::lock_guard on m_chunkMutex alone, at each place update takes one.
UpdateLockChunk ==
    /\ pc[Main] \in {"u_scan_lock", "u_unload_lock", "u_queue_lock", "u_up_lock"}
    /\ m_chunkMutex = Free
    /\ m_chunkMutex' = Main
    /\ MainTo(CASE MainAt("u_scan_lock") -> "u_scan"
                [] MainAt("u_unload_lock") -> "u_unload"
                [] MainAt("u_queue_lock") -> "u_queue_lock2"
                [] MainAt("u_up_lock") -> "u_up")
    /\ UNCHANGED <<pureVars, hw, noise, sampled, drained, m_chunks, queueVars, m_shutdown, m_taskMutex,
                   workerLocals, mainVars>>

\* === LOAD NEW CHUNKS ===: collect the absent coordinates within renderDistance
UpdateScan ==
    /\ MainAt("u_scan")
    /\ toLoad' = InScanOrder({c \in LoadSet(playerChunk) : c \notin DOMAIN m_chunks})
    /\ m_chunkMutex' = Free
    /\ MainTo("u_unload_lock")
    /\ UNCHANGED <<pureVars, hw, noise, sampled, drained, m_chunks, queueVars, m_shutdown, m_taskMutex,
                   workerLocals, playerChunk, i, task>>

\* The coordinates === UNLOAD FAR CHUNKS === erases.
FarChunks == Far(DOMAIN m_chunks, playerChunk, renderDistance)

\* m_chunks.erase destroys the Chunk: every raw pointer to it now dangles.
Erase(far) ==
    /\ m_chunks' = [c \in DOMAIN m_chunks \ far |-> m_chunks[c]]
    /\ chunkPtr' = [w \in Workers |->
                      IF chunkPtr[w] = "valid" /\ coords[w] \in far
                        THEN "dangling" ELSE chunkPtr[w]]

\* === UNLOAD FAR CHUNKS ===, then the test `if (!toLoad.empty())`
UpdateUnload ==
    /\ MainAt("u_unload")
    /\ Erase(FarChunks)
    /\ m_chunkMutex' = Free
    /\ MainTo(IF toLoad = <<>> THEN "u_upload_test" ELSE "u_queue_lock")
    /\ i' = 0
    /\ UNCHANGED <<pureVars, hw, noise, sampled, drained, queueVars, m_shutdown, m_taskMutex, coords, vertices,
                   playerChunk, toLoad, task>>

\* std::lock_guard<std::mutex> taskLock(m_taskMutex), m_chunkMutex being held
UpdateLockTask2 ==
    /\ MainAt("u_queue_lock2")
    /\ m_taskMutex = Free
    /\ m_taskMutex' = Main
    /\ MainTo("u_queue")
    /\ UNCHANGED <<pureVars, hw, noise, sampled, drained, m_chunks, queueVars, m_shutdown, m_chunkMutex,
                   workerLocals, mainVars>>

\* The coordinates of toLoad that are still absent, in toLoad's order.
RECURSIVE StillAbsent(_)
StillAbsent(q) ==
    IF q = <<>> THEN <<>>
    ELSE IF Head(q) \in DOMAIN m_chunks THEN StillAbsent(Tail(q))
    ELSE <<Head(q)>> \o StillAbsent(Tail(q))

\* === QUEUE NEW CHUNKS FOR GENERATION ===: create, push, notify_all
UpdateQueue ==
    /\ MainAt("u_queue")
    /\ LET fresh == StillAbsent(toLoad)
       IN  /\ m_chunks' = [c \in DOMAIN m_chunks \cup Range(fresh) |->
                             IF c \in DOMAIN m_chunks THEN m_chunks[c] ELSE NewChunk]
           /\ m_generationQueue' = m_generationQueue \o fresh
    /\ pc' = [NotifyAll(pc) EXCEPT ![Main] = "u_upload_test"]
    /\ m_chunkMutex' = Free
    /\ m_taskMutex' = Free
    /\ UNCHANGED <<pureVars, hw, noise, sampled, drained, m_meshingQueue, m_uploadQueue, m_shutdown, workerLocals,
                   mainVars>>

\* What the unlocked m_uploadQueue.empty() of the loop condition may return:
\* the truth, or, racing with a meshing worker that is inside its push,
\* anything.
UnlockedEmpty ==
    IF \E w \in m_meshingWorkers : pc[w] = "push" THEN BOOLEAN
    ELSE {m_uploadQueue = <<>>}

\* update returns
Return ==
    /\ MainTo("idle")
    /\ toLoad' = <<>>
    /\ i' = 0
    /\ drained' = 0

\* The loop test as it would be with `i <= MAX_UPLOAD_PER_FRAME`.
UpdateUploadTestInclusive ==
    /\ MainAt("u_upload_test")
    /\ \E empty \in UnlockedEmpty :
          IF i <= MAX_UPLOAD_PER_FRAME /\ ~empty
            THEN MainTo("u_pop_lock") /\ UNCHANGED <<toLoad, i, drained>>
            ELSE Return
    /\ UNCHANGED <<pureVars, hw, noise, sampled, m_chunks, queueVars, m_shutdown, m_chunkMutex,
                   m_taskMutex, workerLocals, playerChunk, task>>

\* for (...; i < MAX_UPLOAD_PER_FRAME && !m_uploadQueue.empty(); )
UpdateUploadTest ==
    /\ MainAt("u_upload_test")
    /\ \E empty \in UnlockedEmpty :
          IF i < MAX_UPLOAD_PER_FRAME /\ ~empty
            THEN MainTo("u_pop_lock") /\ UNCHANGED <<toLoad, i, drained>>
            ELSE Return
    /\ UNCHANGED <<pureVars, hw, noise, sampled, m_chunks, queueVars, m_shutdown, m_chunkMutex,
                   m_taskMutex, workerLocals, playerChunk, task>>

\* std::lock_guard<std::mutex> lock(m_taskMutex) of the upload loop
UpdateLockTask ==
    /\ MainAt("u_pop_lock")
    /\ m_taskMutex = Free
    /\ m_taskMutex' = Main
    /\ MainTo("u_pop")
    /\ UNCHANGED <<pureVars, hw, noise, sampled, drained, m_chunks, queueVars, m_shutdown, m_chunkMutex,
                   workerLocals, mainVars>>

\* if (m_uploadQueue.empty()) break; task = front; pop
UpdatePop ==
    /\ MainAt("u_pop")
    /\ IF m_uploadQueue = <<>>
         THEN Return /\ UNCHANGED <<m_uploadQueue, task>>
         ELSE /\ task' = Head(m_uploadQueue)
              /\ m_uploadQueue' = Tail(m_uploadQueue)
              /\ drained' = drained + 1
              /\ MainTo("u_up_lock")
              /\ UNCHANGED <<toLoad, i>>
    /\ m_taskMutex' = Free
    /\ UNCHANGED <<pureVars, hw, noise, sampled, m_chunks, m_generationQueue, m_meshingQueue, m_shutdown,
                   m_chunkMutex, workerLocals, playerChunk>>

\* Chunk::uploadMesh: the chunk now holds the geometry of `v`.
uploadMesh(chunk, v) ==
    [chunk EXCEPT !.mesh = v, !.uploads = Min(@ + 1, UploadCap)]

\* find(task.chunkCoords): upload and count when present, drop otherwise
UpdateUpload ==
    /\ MainAt("u_up")
    /\ IF task.chunkCoords \in DOMAIN m_chunks
         THEN /\ m_chunks' = [m_chunks EXCEPT
                                ![task.chunkCoords] = uploadMesh(@, task.vertices)]
              /\ i' = i + 1
         ELSE UNCHANGED <<m_chunks, i>>
    /\ task' = <<>>
    /\ m_chunkMutex' = Free
    /\ MainTo("u_upload_test")
    /\ UNCHANGED <<pureVars, hw, noise, sampled, drained, queueVars, m_shutdown, m_taskMutex, workerLocals,
                   playerChunk, toLoad>>

update ==
    \/ UpdateLockChunk \/ UpdateScan \/ UpdateUnload \/ UpdateLockTask2
    \/ UpdateQueue \/ UpdateUploadTest \/ UpdateLockTask \/ UpdatePop
    \/ UpdateUpload

----------------------------------------------------------------------------
(* ChunkManager::update run from entry to return with no worker scheduled *)

\* The positions update is called with.
ScanPositions ==
    {k * CHUNK_SIZE : k \in 0..NearSteps}
        \cup {FarX + k * Ulp(FarX) : k \in 0..FarSteps}

\* ChunkManager::getChunkCoords, the x of it: floor(worldPos.x / CHUNK_SIZE)
getChunkCoords(x) == x \div CHUNK_SIZE

\* update(x, ., 0) under the source's renderDistance: scan, unload, create and
\* queue, notify_all; the upload loop finds m_uploadQueue empty.  The
\* generation queue is not taken from here, so a call that would grow it
\* beyond ScanQueueCap is not made.
UpdateCollection(x) ==
    /\ MainAt("idle")
    /\ m_uploadQueue = <<>>
    /\ LET px == getChunkCoords(x)
           S == DOMAIN m_chunks
           load == InRadius(px, ScanRadius) \ S
           kept == S \ Far(S, px, ScanRadius)
       IN  /\ Len(m_generationQueue) + Cardinality(load) <= ScanQueueCap
           /\ playerChunk' = px
           /\ m_chunks' = [c \in kept \cup load |->
                             IF c \in kept THEN m_chunks[c] ELSE NewChunk]
           /\ m_generationQueue' = m_generationQueue \o InScanOrder(load)
           /\ pc' = IF load = {} THEN pc ELSE NotifyAll(pc)
    /\ UNCHANGED <<pureVars, hw, noise, sampled, drained, m_meshingQueue, m_uploadQueue, m_shutdown,
                   m_chunkMutex, m_taskMutex, workerLocals, toLoad, i, task>>

----------------------------------------------------------------------------
(* ChunkManager::reloadAllChunks, on the consumer thread *)

\* A reload is asked for only while the work in flight leaves room for it.
ReloadEnter ==
    /\ MainAt("idle")
    /\ Cardinality(DOMAIN m_chunks)
         + Cardinality({w \in Workers : coords[w] # <<>>}) <= MaxInFlight
    /\ MainTo("r_lock")
    /\ UNCHANGED <<pureVars, hw, noise, sampled, drained, m_chunks, queueVars, m_shutdown, m_chunkMutex,
                   m_taskMutex, workerLocals, mainVars>>

\* std::lock_guard<std::mutex> chunkLock(m_chunkMutex)
ReloadLockChunk ==
    /\ MainAt("r_lock")
    /\ m_chunkMutex = Free
    /\ m_chunkMutex' = Main
    /\ MainTo("r_lock2")
    /\ UNCHANGED <<pureVars, hw, noise, sampled, drained, m_chunks, queueVars, m_shutdown, m_taskMutex,
                   workerLocals, mainVars>>

\* std::lock_guard<std::mutex> taskLock(m_taskMutex)
ReloadLockTask ==
    /\ MainAt("r_lock2")
    /\ m_taskMutex = Free
    /\ m_taskMutex' = Main
    /\ MainTo("r_body")
    /\ UNCHANGED <<pureVars, hw, noise, sampled, drained, m_chunks, queueVars, m_shutdown, m_chunkMutex,
                   workerLocals, mainVars>>

\* Requeue as it would be without the swap that empties m_meshingQueue.
RequeueKeepingMeshing(order) ==
    /\ m_generationQueue' = order
    /\ m_meshingQueue' = m_meshingQueue
    /\ m_uploadQueue' = <<>>

\* The three swaps with empty queues, then one push per entry of m_chunks.
Requeue(order) ==
    /\ m_generationQueue' = order
    /\ m_meshingQueue' = <<>>
    /\ m_uploadQueue' = <<>>

\* Clear queues, re-queue all chunks, notify_all
ReloadBody ==
    /\ MainAt("r_body")
    /\ \E order \in IterationOrders(DOMAIN m_chunks) : Requeue(order)
    /\ pc' = [NotifyAll(pc) EXCEPT ![Main] = "r_unlock"]
    /\ UNCHANGED <<pureVars, hw, noise, sampled, drained, m_chunks, m_shutdown, m_chunkMutex, m_taskMutex,
                   workerLocals, mainVars>>

\* The two lock_guards go out of scope.
ReloadUnlock ==
    /\ MainAt("r_unlock")
    /\ m_chunkMutex' = Free
    /\ m_taskMutex' = Free
    /\ MainTo("idle")
    /\ UNCHANGED <<pureVars, hw, noise, sampled, drained, m_chunks, queueVars, m_shutdown, workerLocals, mainVars>>

\* reloadAllChunks as it would be with its two lock_guards declared in the
\* other order: m_taskMutex first, then m_chunkMutex.
reloadAllChunksTaskFirst ==
    \/ ReloadEnter
    \/ /\ MainAt("r_lock")
       /\ m_taskMutex = Free
       /\ m_taskMutex' = Main
       /\ MainTo("r_lock2")
       /\ UNCHANGED <<pureVars, hw, noise, sampled, drained, m_chunks, queueVars, m_shutdown, m_chunkMutex,
                      workerLocals, mainVars>>
    \/ /\ MainAt("r_lock2")
       /\ m_chunkMutex = Free
       /\ m_chunkMutex' = Main
       /\ MainTo("r_body")
       /\ UNCHANGED <<pureVars, hw, noise, sampled, drained, m_chunks, queueVars, m_shutdown, m_taskMutex,
                      workerLocals, mainVars>>
    \/ ReloadBody
    \/ ReloadUnlock

reloadAllChunks ==
    \/ ReloadEnter \/ ReloadLockChunk \/ ReloadLockTask \/ ReloadBody
    \/ ReloadUnlock

----------------------------------------------------------------------------
(* MinecraftApp::renderTerrainTweakingPanel, on the consumer thread *)

\* A slider has changed a parameter (paramsChanged): updateNoiseGenerators is
\* entered, with no lock and without waiting for any worker.
TweakEnter ==
    /\ MainAt("idle")
    /\ noise < MaxTweaks
    /\ Cardinality(DOMAIN m_chunks)
         + Cardinality({w \in Workers : coords[w] # <<>>}) <= MaxInFlight
    /\ MainTo("n_update")
    /\ UNCHANGED <<pureVars, hw, noise, sampled, drained, m_chunks, queueVars, m_shutdown,
                   m_chunkMutex, m_taskMutex, workerLocals, mainVars>>

\* initializeNoiseGenerators has replaced the five generators; what follows
\* is m_chunkManager->reloadAllChunks().
TweakUpdate ==
    /\ MainAt("n_update")
    /\ noise' = noise + 1
    /\ MainTo("r_lock")
    /\ UNCHANGED <<pureVars, hw, sampled, drained, m_chunks, queueVars, m_shutdown, m_chunkMutex,
                   m_taskMutex, workerLocals, mainVars>>

renderTerrainTweakingPanel ==
    \/ TweakEnter \/ TweakUpdate
    \/ ReloadLockChunk \/ ReloadLockTask \/ ReloadBody \/ ReloadUnlock

----------------------------------------------------------------------------
(* ChunkManager::render and ChunkManager::getBlock, on the consumer thread *)

\* Either is entered; both take m_chunkMutex alone and only read m_chunks.
ReadEnter ==
    /\ MainAt("idle")
    /\ \E l \in {"render_lock", "getBlock_lock"} : MainTo(l)
    /\ UNCHANGED <<pureVars, hw, noise, sampled, drained, m_chunks, queueVars, m_shutdown, m_chunkMutex,
                   m_taskMutex, workerLocals, mainVars>>

ReadLockChunk ==
    /\ pc[Main] \in {"render_lock", "getBlock_lock"}
    /\ m_chunkMutex = Free
    /\ m_chunkMutex' = Main
    /\ MainTo(IF MainAt("render_lock") THEN "render" ELSE "getBlock")
    /\ UNCHANGED <<pureVars, hw, noise, sampled, drained, m_chunks, queueVars, m_shutdown, m_taskMutex,
                   workerLocals, mainVars>>

ReadBody ==
    /\ pc[Main] \in {"render", "getBlock"}
    /\ m_chunkMutex' = Free
    /\ MainTo("idle")
    /\ UNCHANGED <<pureVars, hw, noise, sampled, drained, m_chunks, queueVars, m_shutdown, m_taskMutex,
                   workerLocals, mainVars>>

----------------------------------------------------------------------------
(* ChunkManager::~ChunkManager, on the consumer thread *)

\* m_shutdown = true, with no mutex held
DestroySetFlag ==
    /\ MainAt("idle")
    /\ m_shutdown' = TRUE
    /\ MainTo("d_notify")
    /\ UNCHANGED <<pureVars, hw, noise, sampled, drained, m_chunks, queueVars, m_chunkMutex, m_taskMutex,
                   workerLocals, mainVars>>

\* m_taskCV.notify_all()
DestroyNotify ==
    /\ MainAt("d_notify")
    /\ pc' = [NotifyAll(pc) EXCEPT ![Main] = "d_join"]
    /\ UNCHANGED <<pureVars, hw, noise, sampled, drained, m_chunks, queueVars, m_shutdown, m_chunkMutex,
                   m_taskMutex, workerLocals, mainVars>>

\* The joins return once every worker has left its loop.
DestroyJoin ==
    /\ MainAt("d_join")
    /\ \A w \in Workers : pc[w] = "done"
    /\ MainTo("destroyed")
    /\ UNCHANGED <<pureVars, hw, noise, sampled, drained, m_chunks, queueVars, m_shutdown, m_chunkMutex,
                   m_taskMutex, workerLocals, mainVars>>

Destroy == DestroySetFlag \/ DestroyNotify \/ DestroyJoin

---------------------------------------------------------------------------------------------------------------------------------------------------
(* Chunk: the block grid and its accessors *)

Cells == (0..(GridSize - 1)) \X (0..(GridHeight - 1)) \X (0..(GridSize - 1))

\* The negation of the accessors' bounds test.
InRange(x, y, z) ==
    ~(x < 0 \/ x >= GridSize \/ y < 0 \/ y >= GridHeight \/ z < 0 \/ z >= GridSize)

\* The values of an int coordinate outside 0..size-1 that the accessors are
\* called with: just below, just above, and the far ends of int.
OutValues(size) == {-2147483647, -1, size, 2147483647}

\* The coordinates Chunk::getBlock and Chunk::setBlock are called with: every
\* cell, every cell position with one axis out of range, and one with all three.
ProbeCoords ==
    Cells \cup {<<x, 0, 0>> : x \in OutValues(GridSize)}
          \cup {<<0, y, 0>> : y \in OutValues(GridHeight)}
          \cup {<<0, 0, z>> : z \in OutValues(GridSize)}
          \cup {<<-1, 2147483647, GridSize>>}

\* Chunk::Chunk: every block is air; m_dirty{true}
NewGrid == [c \in Cells |-> 0]

\* Chunk::getBlock(x, y, z); `accessed` is the element of m_blocks it reads
Chunk_getBlock(x, y, z) ==
    /\ m_blocks # <<>>
    /\ call' = [op |-> "getBlock", at |-> <<x, y, z>>,
                result |-> IF InRange(x, y, z) THEN m_blocks[<<x, y, z>>] ELSE 0,
                accessed |-> IF InRange(x, y, z) THEN <<x, y, z>> ELSE <<>>]
    /\ UNCHANGED <<threadVars, chunkPos, surface, m_blocks, m_dirty, outside, mask, emitted, outVertices>>

\* setBlock as it would be with only the tests against 0: a coordinate at or
\* beyond the size passes, the store goes past the grid and m_dirty is set.
Chunk_setBlockLowerOnly(x, y, z, type) ==
    /\ m_blocks # <<>>
    /\ IF x < 0 \/ y < 0 \/ z < 0
         THEN UNCHANGED <<m_blocks, m_dirty>>
         ELSE /\ m_blocks' = IF InRange(x, y, z)
                               THEN [m_blocks EXCEPT ![<<x, y, z>>] = type]
                               ELSE m_blocks
              /\ m_dirty' = TRUE
    /\ call' = [op |-> "setBlock", at |-> <<x, y, z>>, result |-> type,
                accessed |-> IF x < 0 \/ y < 0 \/ z < 0 THEN <<>> ELSE <<x, y, z>>]
    /\ UNCHANGED <<threadVars, chunkPos, surface, outside, mask, emitted, outVertices>>

\* Chunk::setBlock(x, y, z, type); `accessed` is the element it writes
Chunk_setBlock(x, y, z, type) ==
    /\ m_blocks # <<>>
    /\ IF InRange(x, y, z)
         THEN /\ m_blocks' = [m_blocks EXCEPT ![<<x, y, z>>] = type]
              /\ m_dirty' = TRUE
         ELSE UNCHANGED <<m_blocks, m_dirty>>
    /\ call' = [op |-> "setBlock", at |-> <<x, y, z>>, result |-> type,
                accessed |-> IF InRange(x, y, z) THEN <<x, y, z>> ELSE <<>>]
    /\ UNCHANGED <<threadVars, chunkPos, surface, outside, mask, emitted, outVertices>>

\* Chunk::markDirty(dirty)
markDirty(dirty) ==
    /\ m_blocks # <<>>
    /\ m_dirty' = dirty
    /\ call' = [op |-> "markDirty", at |-> <<>>, result |-> dirty, accessed |-> <<>>]
    /\ UNCHANGED <<threadVars, chunkPos, surface, m_blocks, outside, mask, emitted, outVertices>>

----------------------------------------------------------------------------
(* Terrain: the surface sampler and Chunk::generate *)

Max(a, b) == IF a > b THEN a ELSE b

\* BlockDatabase::getBlockByName(name)->id for the names ImprovedSurface
\* asks for: five blocks of the registry, each with an id of its own.
getBlockByName(name) ==
    CASE name = "Grass" -> 1
      [] name = "Dirt"  -> 2
      [] name = "Stone" -> 3
      [] name = "Sand"  -> 4
      [] name = "Snow"  -> 5

\* What the noise generators answer for a column: sampleTerrainHeight in
\* halves of a block, sampleErosion and sampleContinentalness in hundredths.
Readings ==
    << [terrainHeight |-> -401, erosion |-> 50, continentalness |-> 20],
       [terrainHeight |-> -91,  erosion |-> 50, continentalness |-> 30],
       [terrainHeight |-> 5,    erosion |-> 50, continentalness |-> 50],
       [terrainHeight |-> 61,   erosion |-> 32, continentalness |-> 60],
       [terrainHeight |-> 120,  erosion |-> 50, continentalness |-> 60],
       [terrainHeight |-> 150,  erosion |-> 20, continentalness |-> 70],
       [terrainHeight |-> 162,  erosion |-> 50, continentalness |-> 70],
       [terrainHeight |-> 217,  erosion |-> 20, continentalness |-> 90],
       [terrainHeight |-> 1300, erosion |-> 10, continentalness |-> 95] >>

\* The "Water Level" slider's ends and TerrainParams' default.
WaterLevels == {40, 48, 100}

\* The terrain noise generators a SurfaceManager can hold.
Samplers == [waterLevel : WaterLevels, seed : 0..(NoiseSeeds - 1), frequency : {0, 1}]

\* The noise at a world column: a fixed function of the seed, the parameters
\* and the column.
TerrainNoise(s, worldX, worldZ) ==
    Readings[((s.seed + s.frequency * (worldX + GridSize * worldZ)) % Len(Readings)) + 1]

\* static_cast<int>(float) of a height given in halves: towards zero
StaticCastInt(halves) == IF halves < 0 THEN 0 - ((0 - halves) \div 2) ELSE halves \div 2

\* ImprovedSurface::sampleColumn(worldX, worldZ)
sampleColumn(s, worldX, worldZ) ==
    LET r == TerrainNoise(s, worldX, worldZ)
        WATER_LEVEL == s.waterLevel
        absoluteHeight == Max(0, Min(255, WATER_LEVEL + StaticCastInt(r.terrainHeight)))
        m_grassId == getBlockByName("Grass")
        m_dirtId == getBlockByName("Dirt")
        m_stoneId == getBlockByName("Stone")
        m_sandId == getBlockByName("Sand")
        m_snowId == getBlockByName("Snow")
        Sample(top, filler, stone) ==
            [height |-> absoluteHeight, topBlock |-> top, fillerBlock |-> filler,
             stoneBlock |-> stone]
    IN  IF absoluteHeight < WATER_LEVEL THEN Sample(m_sandId, m_sandId, m_stoneId)
        ELSE IF absoluteHeight < WATER_LEVEL + 3 THEN Sample(m_sandId, m_sandId, m_stoneId)
        ELSE IF absoluteHeight > 120 /\ r.erosion < 30
             THEN Sample(m_snowId, m_stoneId, m_stoneId)
        ELSE IF r.erosion < 35 /\ r.continentalness > 55
             THEN Sample(m_stoneId, m_stoneId, m_stoneId)
        ELSE Sample(m_grassId, m_dirtId, m_stoneId)

\* The grid of a Chunk of full height
GenCells == (0..(GridSize - 1)) \X (0..(CHUNK_HEIGHT - 1)) \X (0..(GridSize - 1))

\* setBlock as it would be if it only filled cells that hold air.
setBlockIfAir(grid, x, y, z, type) ==
    IF x < 0 \/ x >= GridSize \/ y < 0 \/ y >= CHUNK_HEIGHT \/ z < 0 \/ z >= GridSize
    THEN grid
    ELSE IF grid[<<x, y, z>>] # 0 THEN grid
    ELSE [grid EXCEPT ![<<x, y, z>>] = type]

\* Chunk::setBlock on a grid of full height: the grid it leaves
setBlock(grid, x, y, z, type) ==
    IF x < 0 \/ x >= GridSize \/ y < 0 \/ y >= CHUNK_HEIGHT \/ z < 0 \/ z >= GridSize
    THEN grid
    ELSE [grid EXCEPT ![<<x, y, z>>] = type]

\* The blockId Chunk::generate picks for height y of a column sampled as s
ColumnBlock(s, y) ==
    LET maxY == Min(s.height, CHUNK_HEIGHT - 1)
    IN  IF y > maxY THEN 0
        ELSE IF y = s.height THEN s.topBlock
        ELSE IF y >= s.height - 3 THEN s.fillerBlock
        ELSE s.stoneBlock

\* The loops of Chunk::generate over x, z and y.  Iteration (x, y, z) samples
\* the column, picks the block and calls setBlock(x, y, z, blockId); it reads
\* no cell, and no other iteration is handed the same (x, y, z), so the grid
\* holds at each cell what that cell's own call of setBlock left there.
generate(grid, pos, surfaceManager) ==
    [c \in GenCells |->
        LET worldX == pos[1] * GridSize + c[1]
            worldZ == pos[3] * GridSize + c[3]
            sample == sampleColumn(surfaceManager, worldX, worldZ)
        IN  setBlock(grid, c[1], c[2], c[3], ColumnBlock(sample, c[2]))[c]]

\* Chunk::generate(surfaceManager)
Chunk_generate ==
    /\ surface # <<>>
    /\ m_blocks' = generate(m_blocks, chunkPos, surface)
    /\ m_dirty' = TRUE
    /\ call' = [op |-> "generate", at |-> chunkPos,
                result |-> Cardinality({c \in GenCells : m_blocks'[c] # m_blocks[c]}),
                accessed |-> <<>>]
    /\ UNCHANGED <<threadVars, chunkPos, surface, outside, mask, emitted, outVertices>>

\* Chunk::setBlock(x, y, z, type) on the Chunk of full height
EditBlock(x, y, z, type) ==
    /\ surface # <<>>
    /\ m_blocks' = setBlock(m_blocks, x, y, z, type)
    /\ m_dirty' = TRUE
    /\ call' = [op |-> "setBlock", at |-> <<x, y, z>>, result |-> type, accessed |-> <<>>]
    /\ UNCHANGED <<threadVars, chunkPos, surface, outside, mask, emitted, outVertices>>

\* SurfaceManager::sampleColumn(worldX, worldZ)
SurfaceManager_sampleColumn(worldX, worldZ) ==
    /\ surface # <<>>
    /\ call' = [op |-> "sampleColumn", at |-> <<worldX, worldZ>>,
                result |-> sampleColumn(surface, worldX, worldZ), accessed |-> <<>>]
    /\ UNCHANGED <<threadVars, chunkPos, surface, m_blocks, m_dirty, outside, mask,
                   emitted, outVertices>>

----------------------------------------------------------------------------
(* Block query: ChunkManager::getBlock on world coordinates *)

\* int % int of C++: the remainder takes the sign of the dividend
CppRem(a, b) == IF a < 0 THEN 0 - ((0 - a) % b) ELSE a % b

\* glm::vec3(worldPos): each int coordinate becomes a float
ToVec3(v) == <<ToFloat(v[1]), ToFloat(v[2]), ToFloat(v[3])>>

\* ChunkManager::getChunkCoords(worldPos) on a worldPos of whole floats, for
\* chunks GridSize wide: floor of the quotient, y always 0
ChunkManager_getChunkCoords(worldPos) ==
    <<worldPos[1] \div GridSize, 0, worldPos[3] \div GridSize>>

\* ChunkManager::getBlockLocalCoords(worldPos)
ChunkManager_getBlockLocalCoords(worldPos) ==
    LET remX == CppRem(worldPos[1], GridSize)
        remZ == CppRem(worldPos[3], GridSize)
        localX == IF remX < 0 THEN remX + GridSize ELSE remX
        localZ == IF remZ < 0 THEN remZ + GridSize ELSE remZ
    IN  <<localX, worldPos[2], localZ>>

\* Chunk::getBlockWorldPosition(x, y, z) of the chunk at pos, a glm::vec3
getBlockWorldPosition(pos, x, y, z) ==
    ToVec3(<<pos[1] * GridSize + x, pos[2] * GridHeight + y, pos[3] * GridSize + z>>)

\* The block ChunkManager::getBlock(x, y, z) returns, with the chunk and the
\* local coordinates it resolves the position to
BlockQuery(x, y, z) ==
    LET worldPos == ToVec3(<<x, y, z>>)
        chunkCoords == ChunkManager_getChunkCoords(worldPos)
        local == ChunkManager_getBlockLocalCoords(worldPos)
    IN  [chunkCoords |-> chunkCoords,
         local |-> local,
         block |-> IF chunkCoords \notin DOMAIN m_chunks THEN 0
                   ELSE IF local[2] < 0 \/ local[2] >= GridHeight THEN 0
                   ELSE IF InRange(local[1], local[2], local[3])
                        THEN m_chunks[chunkCoords].blocks[local]
                        ELSE 0]

\* The grid of the chunk at pos in the runs of the query: every cell holds an
\* id that tells the cell and the chunk's parities.
MarkedGrid(pos) ==
    [c \in Cells |->
        1 + c[1] + GridSize * (c[3] + GridSize * (c[2] + GridHeight * ((pos[1] % 2) + 2 * (pos[3] % 2))))]

\* loadChunk(coords) followed by the chunk's generation: the collection holds
\* a chunk with a grid at coords. The answer of an earlier query is of the
\* collection as it was, and is dropped.
PlaceChunk(pos) ==
    /\ pos \notin DOMAIN m_chunks
    /\ m_chunks' = [c \in DOMAIN m_chunks \cup {pos} |->
                       IF c = pos THEN [NewChunk EXCEPT !.blocks = MarkedGrid(pos)]
                       ELSE m_chunks[c]]
    /\ call' = <<>>
    /\ UNCHANGED <<m_blocks, m_dirty, outside, mask, emitted, outVertices, chunkPos, surface,
                   hw, noise, sampled, drained, queueVars, m_shutdown, m_chunkMutex,
                   m_taskMutex, pc, workerLocals, mainVars>>

\* ChunkManager::getBlock(x, y, z)
ChunkManager_getBlock(x, y, z) ==
    /\ m_chunkMutex = Free
    /\ call' = [op |-> "ChunkManager::getBlock", at |-> <<x, y, z>>,
                result |-> BlockQuery(x, y, z).block,
                accessed |-> <<BlockQuery(x, y, z).chunkCoords, BlockQuery(x, y, z).local>>]
    /\ UNCHANGED <<threadVars, chunkPos, surface, m_blocks, m_dirty, outside, mask,
                   emitted, outVertices>>

\* MinecraftApp::getBlock on the world position of cell (x, y, z) of the
\* chunk at pos, as getBlockWithNeighbors makes the call
QueryCell(pos, x, y, z) ==
    /\ m_chunkMutex = Free
    /\ pos \in DOMAIN m_chunks
    /\ LET worldPos == getBlockWorldPosition(pos, x, y, z)
       IN  call' = [op |-> "getBlockWorldPosition", at |-> <<pos, <<x, y, z>>>>,
                    result |-> BlockQuery(worldPos[1], worldPos[2], worldPos[3]).block,
                    accessed |-> worldPos]
    /\ UNCHANGED <<threadVars, chunkPos, surface, m_blocks, m_dirty, outside, mask,
                   emitted, outVertices>>

----------------------------------------------------------------------------
(* Greedy mesher *)

\* enum class BlockFace, in its order
BlockFace == <<"Top", "Bottom", "North", "South", "East", "West">>

FACE_NORMALS ==
    [Top    |-> <<0, 1, 0>>,  Bottom |-> <<0, -1, 0>>,
     North  |-> <<0, 0, -1>>, South  |-> <<0, 0, 1>>,
     East   |-> <<1, 0, 0>>,  West   |-> <<-1, 0, 0>>]

FACE_TEMPLATE_POS ==
    [Top    |-> << <<1,1,1>>, <<1,1,0>>, <<0,1,0>>, <<0,1,0>>, <<0,1,1>>, <<1,1,1>> >>,
     Bottom |-> << <<0,0,0>>, <<1,0,0>>, <<1,0,1>>, <<1,0,1>>, <<0,0,1>>, <<0,0,0>> >>,
     North  |-> << <<1,0,0>>, <<0,0,0>>, <<0,1,0>>, <<0,1,0>>, <<1,1,0>>, <<1,0,0>> >>,
     South  |-> << <<1,1,1>>, <<0,1,1>>, <<0,0,1>>, <<0,0,1>>, <<1,0,1>>, <<1,1,1>> >>,
     East   |-> << <<1,1,1>>, <<1,0,1>>, <<1,0,0>>, <<1,0,0>>, <<1,1,0>>, <<1,1,1>> >>,
     West   |-> << <<0,1,1>>, <<0,1,0>>, <<0,0,0>>, <<0,0,0>>, <<0,0,1>>, <<0,1,1>> >>]

\* BlockDatabase::isOpaque: air and unregistered ids are not opaque
isOpaque(id) == id \in OpaqueIds

\* The positions one step outside the grid to the west, east, north or south:
\* those getBlockWithNeighbors hands to MinecraftApp::getBlock and that fall
\* into a neighbouring chunk.
OutsideCells ==
    {c \in ((-1)..GridSize) \X (0..(GridHeight - 1)) \X ((-1)..GridSize) :
        (c[1] \in 0..(GridSize - 1)) # (c[3] \in 0..(GridSize - 1))}

\* The neighbour lookups meshing is run under: each colours the outside
\* positions like a chessboard with air or an opaque block.
NeighbourLookups ==
    {[c \in OutsideCells |-> IF (c[1] + c[2] + c[3]) % 2 = 0 THEN a ELSE b] :
        a, b \in {0, 1}}

\* getBlockWithNeighbors; ChunkManager::getBlock answers 0 for a y outside
\* the chunk's height, `outside` stands for the neighbouring chunks.
getBlockWithNeighbors(x, y, z) ==
    IF x >= 0 /\ x < GridSize /\ y >= 0 /\ y < GridHeight /\ z >= 0 /\ z < GridSize
    THEN m_blocks[<<x, y, z>>]
    ELSE IF y < 0 \/ y >= GridHeight THEN 0 ELSE outside[<<x, y, z>>]

\* maskAt: mask[y * width + x], on a sequence that starts at 1
maskAt(m, width, x, y) == m[y * width + x + 1]

\* The width loop as it would be without the loop: a quad is one cell wide.
QuadWidthOneCell(m, width, x, y, quadWidth) == quadWidth

\* The width loop of greedyScan2D
RECURSIVE QuadWidth(_, _, _, _, _)
QuadWidth(m, width, x, y, quadWidth) ==
    IF /\ x + quadWidth < width
       /\ maskAt(m, width, x + quadWidth, y).visible
       /\ maskAt(m, width, x + quadWidth, y).id = maskAt(m, width, x, y).id
    THEN QuadWidth(m, width, x, y, quadWidth + 1)
    ELSE quadWidth

\* The height loop as it would be without the loop: a quad is one row tall.
QuadHeightOneRow(m, width, height, x, y, quadWidth, quadHeight) == quadHeight

\* The height loop of greedyScan2D
RECURSIVE QuadHeight(_, _, _, _, _, _, _)
QuadHeight(m, width, height, x, y, quadWidth, quadHeight) ==
    IF /\ y + quadHeight < height
       /\ \A k \in 0..(quadWidth - 1) :
             /\ maskAt(m, width, x + k, y + quadHeight).visible
             /\ maskAt(m, width, x + k, y + quadHeight).id = maskAt(m, width, x, y).id
    THEN QuadHeight(m, width, height, x, y, quadWidth, quadHeight + 1)
    ELSE quadHeight

\* "Mark consumed" as it would be if it marked nothing.
MarkConsumedNothing(m, width, x, y, quadWidth, quadHeight) == m

\* "Mark consumed": visible = false on every cell of the rectangle
MarkConsumed(m, width, x, y, quadWidth, quadHeight) ==
    [p \in DOMAIN m |->
        IF /\ (p - 1) % width \in x..(x + quadWidth - 1)
           /\ (p - 1) \div width \in y..(y + quadHeight - 1)
        THEN [m[p] EXCEPT !.visible = FALSE]
        ELSE m[p]]

\* The two loops of greedyScan2D from position (x, y) on; rects collects the
\* arguments of the calls of emit, in their order.
RECURSIVE ScanFrom(_, _, _, _, _, _)
ScanFrom(m, width, height, x, y, rects) ==
    IF y >= height THEN [mask |-> m, rects |-> rects]
    ELSE IF x >= width THEN ScanFrom(m, width, height, 0, y + 1, rects)
    ELSE IF ~maskAt(m, width, x, y).visible
         THEN ScanFrom(m, width, height, x + 1, y, rects)
    ELSE LET id == maskAt(m, width, x, y).id
             quadWidth == QuadWidth(m, width, x, y, 1)
             quadHeight == QuadHeight(m, width, height, x, y, quadWidth, 1)
         IN  ScanFrom(MarkConsumed(m, width, x, y, quadWidth, quadHeight),
                      width, height, x + quadWidth, y,
                      Append(rects, [x |-> x, y |-> y, w |-> quadWidth,
                                     h |-> quadHeight, id |-> id]))

greedyScan2D(width, height, m) == ScanFrom(m, width, height, 0, 0, <<>>)

\* BlockDatabase::getBlockFaceUV: the atlas tile of a block's face, written
\* as the pair it is looked up by.
getBlockFaceUV(blockId, face) == <<blockId, face>>

\* emitQuad: the six vertices it pushes
emitQuad(face, planeIndex, x, y, w, h, blockId) ==
    [k \in 1..6 |->
        LET c == FACE_TEMPLATE_POS[face][k]
            cx == c[1]
            cy == c[2]
            cz == c[3]
            pos == CASE face = "Top" ->
                        <<x + (IF cx > 0 THEN w ELSE 0), planeIndex + 1,
                          y + (IF cz > 0 THEN h ELSE 0)>>
                     [] face = "Bottom" ->
                        <<x + (IF cx > 0 THEN w ELSE 0), planeIndex,
                          y + (IF cz > 0 THEN h ELSE 0)>>
                     [] face = "North" ->
                        <<x + (IF cx > 0 THEN w ELSE 0),
                          y + (IF cy > 0 THEN h ELSE 0), planeIndex>>
                     [] face = "South" ->
                        <<x + (IF cx > 0 THEN w ELSE 0),
                          y + (IF cy > 0 THEN h ELSE 0), planeIndex + 1>>
                     [] face = "East" ->
                        <<planeIndex + 1, y + (IF cy > 0 THEN h ELSE 0),
                          x + (IF cz > 0 THEN w ELSE 0)>>
                     [] face = "West" ->
                        <<planeIndex, y + (IF cy > 0 THEN h ELSE 0),
                          x + (IF cz > 0 THEN w ELSE 0)>>
            uFactor == IF face \in {"East", "West"} THEN cz ELSE cx
            vFactor == IF face \in {"Top", "Bottom"} THEN cz ELSE cy
        IN  [position |-> pos,
             normal |-> FACE_NORMALS[face],
             texCoord |-> [tile |-> getBlockFaceUV(blockId, face),
                           at |-> <<uFactor, vFactor>>]]]

\* The order of the six passes of buildGreedyMesh
PassOrder == <<"Top", "Bottom", "South", "North", "East", "West">>

\* The mask of a pass: its width, its height, the slices it runs over
MaskWidth(face) == GridSize
MaskHeight(face) == IF face \in {"Top", "Bottom"} THEN GridSize ELSE GridHeight
Planes(face) == IF face \in {"Top", "Bottom"} THEN GridHeight ELSE GridSize

\* The block a pass puts at mask position (mx, my) of a slice
CellOf(face, plane, mx, my) ==
    CASE face \in {"Top", "Bottom"} -> <<mx, plane, my>>
      [] face \in {"South", "North"} -> <<mx, my, plane>>
      [] face \in {"East", "West"} -> <<plane, my, mx>>

\* The neighbour each pass compares with: y + 1, y - 1, z + 1, z - 1, x + 1, x - 1
Beyond(face, c) ==
    CASE face = "Top"    -> <<c[1], c[2] + 1, c[3]>>
      [] face = "Bottom" -> <<c[1], c[2] - 1, c[3]>>
      [] face = "South"  -> <<c[1], c[2], c[3] + 1>>
      [] face = "North"  -> <<c[1], c[2], c[3] - 1>>
      [] face = "East"   -> <<c[1] + 1, c[2], c[3]>>
      [] face = "West"   -> <<c[1] - 1, c[2], c[3]>>

\* The mask fill as it would be without the look at the neighbour.
BuildMaskAllOpaque(face, plane) ==
    [p \in 1..(MaskWidth(face) * MaskHeight(face)) |->
        LET c == CellOf(face, plane, (p - 1) % MaskWidth(face), (p - 1) \div MaskWidth(face))
            curId == getBlockWithNeighbors(c[1], c[2], c[3])
        IN  [visible |-> isOpaque(curId), id |-> curId]]

\* The mask a pass fills for one slice
BuildMask(face, plane) ==
    [p \in 1..(MaskWidth(face) * MaskHeight(face)) |->
        LET c == CellOf(face, plane, (p - 1) % MaskWidth(face), (p - 1) \div MaskWidth(face))
            n == Beyond(face, c)
            curId == getBlockWithNeighbors(c[1], c[2], c[3])
            neighbourId == getBlockWithNeighbors(n[1], n[2], n[3])
        IN  [visible |-> isOpaque(curId) /\ ~isOpaque(neighbourId), id |-> curId]]

\* The calls of emitQuad one slice of one pass makes
SliceQuads(face, plane) ==
    LET rects == greedyScan2D(MaskWidth(face), MaskHeight(face), BuildMask(face, plane)).rects
    IN  [k \in 1..Len(rects) |->
            [face |-> face, plane |-> plane, x |-> rects[k].x, y |-> rects[k].y,
             w |-> rects[k].w, h |-> rects[k].h, id |-> rects[k].id]]

RECURSIVE PassQuads(_, _)
PassQuads(face, plane) ==
    IF plane >= Planes(face) THEN <<>>
    ELSE SliceQuads(face, plane) \o PassQuads(face, plane + 1)

RECURSIVE MeshQuads(_)
MeshQuads(pass) ==
    IF pass > Len(PassOrder) THEN <<>>
    ELSE PassQuads(PassOrder[pass], 0) \o MeshQuads(pass + 1)

RECURSIVE PushAll(_)
PushAll(quads) ==
    IF quads = <<>> THEN <<>>
    ELSE LET q == Head(quads)
         IN  emitQuad(q.face, q.plane, q.x, q.y, q.w, q.h, q.id) \o PushAll(Tail(quads))

\* Meshing::buildGreedyMesh(chunk, app, outVertices)
buildGreedyMesh ==
    /\ m_blocks # <<>>
    /\ emitted' = MeshQuads(1)
    /\ outVertices' = PushAll(emitted')
    /\ call' = [op |-> "buildGreedyMesh", at |-> <<>>, result |-> Len(outVertices'),
                accessed |-> <<>>]
    /\ UNCHANGED <<threadVars, chunkPos, surface, m_blocks, m_dirty, outside, mask>>

\* greedyScan2D(width, height, mask, emit) on a mask of its own
RunGreedyScan2D ==
    /\ mask # <<>>
    /\ LET r == greedyScan2D(ScanWidth, ScanHeight, mask)
       IN  /\ mask' = r.mask
           /\ emitted' = r.rects
    /\ call' = [op |-> "greedyScan2D", at |-> <<ScanWidth, ScanHeight>>,
                result |-> Len(emitted'), accessed |-> <<>>]
    /\ UNCHANGED <<threadVars, chunkPos, surface, m_blocks, m_dirty, outside, outVertices>>

----------------------------------------------------------------------------
(* Specifications *)

\* Every worker some value of hardware_concurrency() gives rise to.
AllWorkers == m_generationWorkers \cup UNION {MeshingPool(h) : h \in HardwareConcurrency}

WorkerStep(w) ==
    /\ w \in Workers
    /\ \/ generationWorker(w) /\ IsGen(w)
       \/ meshingWorker(w) /\ ~IsGen(w)

WorkersNext == \E w \in Workers : WorkerStep(w)

Wakeups == \E w \in Workers : SpuriousWakeup(w)

\* The whole program: a viewpoint that moves, reloads, reads, destruction.
Next ==
    \/ WorkersNext
    \/ Wakeups
    \/ \E px \in PlayerChunks : UpdateEnter(px)
    \/ update
    \/ reloadAllChunks
    \/ renderTerrainTweakingPanel
    \/ ReadEnter \/ ReadLockChunk \/ ReadBody
    \/ Destroy

Spec == Init /\ [][Next]_vars

\* Construction on a machine that gets at least one meshing worker.
LiveInit == Init /\ m_meshingWorkers # {}

\* Streaming: the viewpoint moves between PlayerChunks; no reload, no
\* destruction.
StreamNext ==
    \/ WorkersNext
    \/ Wakeups
    \/ \E px \in PlayerChunks : UpdateEnter(px)
    \/ update

StreamSpec == Init /\ [][StreamNext]_vars

\* Streaming between two chunks next to each other: each stays within the
\* other's unload radius, so the collection comes to hold both.
AdjacentChunks == {StartChunk, StartChunk + 1}

BorderNext ==
    \/ WorkersNext
    \/ Wakeups
    \/ \E px \in AdjacentChunks : UpdateEnter(px)
    \/ update

BorderSpec == LiveInit /\ [][BorderNext]_vars

\* The consumer thread's whole interface under a viewpoint that stays put.
ReloadNext ==
    \/ WorkersNext
    \/ Wakeups
    \/ UpdateEnter(playerChunk)
    \/ update
    \/ reloadAllChunks
    \/ ReadEnter \/ ReadLockChunk \/ ReadBody

ReloadSpec == Init /\ [][ReloadNext]_vars

\* A change of a terrain parameter, with the reload that follows it, under a
\* viewpoint that stays put, on a machine that gets a meshing worker.
TweakNext ==
    \/ WorkersNext
    \/ Wakeups
    \/ UpdateEnter(playerChunk)
    \/ update
    \/ renderTerrainTweakingPanel

TweakSpec == LiveInit /\ [][TweakNext]_vars

\* update alone, called with one position after another.
ScanNext == \E x \in ScanPositions : UpdateCollection(x)

ScanSpec == Init /\ [][ScanNext]_vars

\* One Chunk, just constructed, and calls of its accessors with coordinates
\* inside and outside the grid.
ChunkInit ==
    /\ Constructed
    /\ hw = 0
    /\ m_blocks = NewGrid
    /\ m_dirty = TRUE
    /\ outside = 0
    /\ mask = <<>>
    /\ emitted = <<>>
    /\ outVertices = <<>>
    /\ call = <<>>
    /\ chunkPos = <<0, 0, 0>>
    /\ surface = <<>>

ChunkNext ==
    \/ \E c \in ProbeCoords : Chunk_getBlock(c[1], c[2], c[3])
    \/ \E c \in ProbeCoords : \E type \in {0, 1} : Chunk_setBlock(c[1], c[2], c[3], type)
    \/ \E dirty \in BOOLEAN : markDirty(dirty)

ChunkSpec == ChunkInit /\ [][ChunkNext]_vars

\* greedyScan2D on every mask of ScanWidth by ScanHeight cells.
MaskCell == [visible : BOOLEAN, id : OpaqueIds]

GreedyInit ==
    /\ Constructed
    /\ hw = 0
    /\ m_blocks = <<>>
    /\ m_dirty = FALSE
    /\ outside = 0
    /\ mask \in [1..(ScanWidth * ScanHeight) -> MaskCell]
    /\ emitted = <<>>
    /\ outVertices = <<>>
    /\ call = <<>>
    /\ chunkPos = <<0, 0, 0>>
    /\ surface = <<>>

GreedySpec == GreedyInit /\ [][RunGreedyScan2D]_vars

\* buildGreedyMesh, once, on every block grid under each neighbour lookup.
Grids ==
    {g \in [Cells -> BlockIds] :
        Cardinality({c \in Cells : g[c] # 0 /\ ~isOpaque(g[c])}) <= MaxTranslucent}

MeshInit ==
    /\ Constructed
    /\ hw = 0
    /\ m_blocks \in Grids
    /\ m_dirty = TRUE
    /\ outside \in NeighbourLookups
    /\ mask = <<>>
    /\ emitted = <<>>
    /\ outVertices = <<>>
    /\ call = <<>>
    /\ chunkPos = <<0, 0, 0>>
    /\ surface = <<>>

MeshNext == call = <<>> /\ buildGreedyMesh

MeshSpec == MeshInit /\ [][MeshNext]_vars

\* One Chunk of full height, at one of two coordinates, holding air or
\* stone throughout before it is generated; it is generated, edited and
\* generated again, and its columns are sampled.
ChunkPositions == {<<0, 0, 0>>, <<0 - 1, 0, 2>>}

EditCells == {<<0, 0, 0>>, <<1, CHUNK_HEIGHT - 1, 1>>}

GenInit ==
    /\ Constructed
    /\ hw = 0
    /\ m_blocks \in {[c \in GenCells |-> b] : b \in {0, getBlockByName("Stone")}}
    /\ m_dirty = TRUE
    /\ outside = 0
    /\ mask = <<>>
    /\ emitted = <<>>
    /\ outVertices = <<>>
    /\ call = <<>>
    /\ chunkPos \in ChunkPositions
    /\ surface \in Samplers

GenNext ==
    \/ Chunk_generate
    \/ \E c \in EditCells : \E type \in {0, getBlockByName("Dirt")} :
          EditBlock(c[1], c[2], c[3], type)
    \/ \E x, z \in 0..(GridSize - 1) :
          SurfaceManager_sampleColumn(chunkPos[1] * GridSize + x, chunkPos[3] * GridSize + z)

GenSpec == GenInit /\ [][GenNext]_vars

\* Block queries on a collection that chunks are placed into: chunks around
\* the origin and chunks FarChunk chunks out, where not every int has a float.
FarChunk == 2^23
QueryChunks == {<<0 - 1, 0, 0 - 1>>, <<0 - 1, 0, 0>>, <<0, 0, 0>>, <<FarChunk, 0, 0>>}

QueryCoords ==
    ((0 - GridSize - 1)..(GridSize + 1))
        \cup {FarChunk * GridSize + k : k \in 0..(GridSize + 1)}
        \cup {0 - (FarChunk * GridSize + k) : k \in 0..(GridSize + 1)}

QueryNext ==
    \/ \E pos \in QueryChunks : PlaceChunk(pos)
    \/ \E x \in QueryCoords, y \in (0 - 1)..GridHeight, z \in (0 - GridSize)..(GridSize - 1) :
          ChunkManager_getBlock(x, y, z)
    \/ \E pos \in QueryChunks : \E c \in Cells : QueryCell(pos, c[1], c[2], c[3])

QueryInit == Init /\ hw = 0

QuerySpec == QueryInit /\ [][QueryNext]_vars

\* Destruction under a viewpoint that stays put.
ShutdownNext ==
    \/ WorkersNext
    \/ Wakeups
    \/ UpdateEnter(playerChunk)
    \/ update
    \/ Destroy

ShutdownSpec == Init /\ [][ShutdownNext]_vars

\* A stationary viewpoint, no reload, no shutdown, a meshing pool that is not
\* empty; every worker and the per-tick update are scheduled fairly, and a thread that asks for a mutex
\* again and again gets it (strong fairness).  A spurious wakeup may happen
\* but is never owed.
Tick == UpdateEnter(playerChunk) \/ update

LiveNext == WorkersNext \/ Wakeups \/ Tick

LiveSpec ==
    /\ LiveInit
    /\ [][LiveNext]_vars
    /\ \A w \in AllWorkers : SF_vars(WorkerStep(w))
    /\ SF_vars(Tick)

----------------------------------------------------------------------------
(* Properties *)

\* Resident: the chunk is in the collection and uploadMesh has been applied
\* to it.
Resident(c) == c \in DOMAIN m_chunks /\ m_chunks[c].uploads >= 1

\* C1: pipeline liveness.  With a stationary viewpoint, no reload, no
\* shutdown and fair scheduling, every coordinate within the load radius
\* eventually is Resident.
C1_PipelineLiveness == <>(\A c \in LoadSet(playerChunk) : Resident(c))


\* A step in which worker w goes on from position l of its code.
Leaves(w, l) == pc[w] = l /\ pc'[w] # l

\* C2: eviction safety for in-flight work.  Every step in which a worker
\* reads or writes the block data of the chunk it looked up is taken while
\* that chunk is still in the collection (its pointer has not been freed by
\* update's erase).
C2_NoAccessAfterRemoval ==
    [][\A w \in Workers :
          (Leaves(w, "generate") \/ Leaves(w, "generating") \/ Leaves(w, "mesh"))
              => chunkPtr[w] = "valid"]_vars

\* C3: no duplicate uploads.  Without reloadAll, a chunk in the collection
\* (created since the coordinate's last eviction) has had uploadMesh applied
\* at most once.
C3_AtMostOneUpload == \A c \in DOMAIN m_chunks : m_chunks[c].uploads <= 1

\* The number of entries of queue q (of coordinates) that are c.
Occurrences(q, c) == Cardinality({k \in 1..Len(q) : q[k] = c})

UploadCoords == [k \in 1..Len(m_uploadQueue) |-> m_uploadQueue[k].chunkCoords]

\* C4: each coordinate occurs at most once in total across the generation
\* queue, the meshing queue and the upload queue.
C4_AtMostOneQueueEntry ==
    \A c \in Range(m_generationQueue) \cup Range(m_meshingQueue) \cup Range(UploadCoords) :
        Occurrences(m_generationQueue, c) + Occurrences(m_meshingQueue, c)
            + Occurrences(UploadCoords, c) <= 1


Threads == Workers \cup {Main}

\* C5: stale work is dropped at consumption time.  A worker whose lookup
\* finds no chunk at the coordinate it took, and an update whose lookup finds
\* none at its upload record's coordinate, leave the collection and the
\* three queues as they are and let the item go.
C5_StaleWorkDropped ==
    [][/\ \A w \in Workers :
             (Leaves(w, "lookup") /\ coords[w] \notin DOMAIN m_chunks)
                 => /\ m_chunks' = m_chunks
                    /\ queueVars' = queueVars
                    /\ pc'[w] = "loop"
                    /\ coords'[w] = <<>>
       /\ (Leaves(Main, "u_up") /\ task.chunkCoords \notin DOMAIN m_chunks)
             => /\ m_chunks' = m_chunks
                /\ queueVars' = queueVars
                /\ task' = <<>>]_vars

\* update is at its lookup with an upload record whose chunk has been
\* evicted, while the collection holds another chunk that a generation worker
\* is generating.
C5_Witness ==
    /\ pc[Main] = "u_up"
    /\ task.chunkCoords \notin DOMAIN m_chunks
    /\ m_chunks # <<>>
    /\ \E w \in m_generationWorkers : pc[w] = "generating"

\* C6: stage completion re-checks presence.  A worker pushes its result onto
\* the next queue only if the collection still contains the coordinate.
C6_PushOnlyIfPresent ==
    [][\A w \in Workers : Leaves(w, "push") => coords[w] \in DOMAIN m_chunks]_vars

\* C7: shutdown terminates.  Once the destructor has set the flag and called
\* notify_all, the workers can go on until every one of them has left its
\* loop: the joins are never left waiting for a worker that no step of the
\* program will wake.
C7_ShutdownTerminates ==
    pc[Main] = "d_join" => ((\A w \in Workers : pc[w] = "done") \/ ENABLED WorkersNext)


\* The consumer thread's steps.
MainStep ==
    \/ \E px \in PlayerChunks : UpdateEnter(px)
    \/ update
    \/ reloadAllChunks
    \/ renderTerrainTweakingPanel
    \/ ReadEnter \/ ReadLockChunk \/ ReadBody
    \/ Destroy

\* Thread t has no step it can take.
Stuck(t) == IF t = Main THEN ~ENABLED MainStep ELSE ~ENABLED WorkerStep(t)

\* C8: lock ordering.  No thread acquires the collection mutex while it holds
\* the queue mutex, and no two threads each hold one of the two mutexes while
\* neither can take a step.
C8_LockOrdering ==
    /\ [][(m_chunkMutex' # m_chunkMutex /\ m_chunkMutex' # Free)
              => m_taskMutex # m_chunkMutex']_vars
    /\ [](\A t1, t2 \in Threads :
             (t1 # t2 /\ m_chunkMutex = t1 /\ m_taskMutex = t2)
                 => ~(Stuck(t1) /\ Stuck(t2)))

\* The consumer thread holds both mutexes while the mesher waits for the
\* collection mutex in a cross-chunk getBlock and a generation worker waits
\* for the queue mutex.
C8_Witness ==
    /\ m_chunkMutex = Main
    /\ m_taskMutex = Main
    /\ \E w \in m_meshingWorkers : pc[w] \in {"nbw_lock", "nbe_lock"}
    /\ \E w \in m_generationWorkers : pc[w] \in {"lock_q", "push_lock"}

\* The positions at which a thread reads or writes one of the three queues.
QueueAccess(t) ==
    IF t = Main THEN {"u_queue", "u_upload_test", "u_pop", "r_body"}
    ELSE {"wait_check", "push"}

\* C9: every read and every write of the three queues, emptiness tests
\* included, is performed by a thread that holds the queue mutex.
C9_QueuesUnderLock ==
    \A t \in Threads : pc[t] \in QueueAccess(t) => m_taskMutex = t

\* C10: reloadAllChunks postcondition.  When reloadAllChunks is about to
\* release its locks, the meshing and upload queues are empty and the
\* generation queue holds each coordinate of the collection exactly once and
\* nothing else; and no step taken while reloadAllChunks runs creates or
\* removes a chunk.
C10_ReloadPostcondition ==
    /\ [](pc[Main] = "r_unlock" =>
             /\ m_meshingQueue = <<>>
             /\ m_uploadQueue = <<>>
             /\ Range(m_generationQueue) = DOMAIN m_chunks
             /\ Len(m_generationQueue) = Cardinality(DOMAIN m_chunks))
    /\ [][pc[Main] \in {"r_lock", "r_lock2", "r_body", "r_unlock"}
              => DOMAIN m_chunks' = DOMAIN m_chunks]_vars

\* reloadAllChunks is about to release its locks; the collection is not
\* empty, a generation worker is mid-task and the meshing worker is too.
C10_Witness ==
    /\ pc[Main] = "r_unlock"
    /\ DOMAIN m_chunks # {}
    /\ \E w \in m_generationWorkers : pc[w] \in {"generate", "generating", "push_lock"}
    /\ \E w \in m_meshingWorkers : pc[w] \in {"mesh", "nbw_lock", "nbe_lock", "push_lock"}

----------------------------------------------------------------------------
(* Reload-all, sampler configuration *)

\* Nothing is in flight: the consumer thread is between two calls, the three
\* queues are empty and no worker holds a coordinate.
Quiescent ==
    /\ pc[Main] = "idle"
    /\ m_generationQueue = <<>> /\ m_meshingQueue = <<>> /\ m_uploadQueue = <<>>
    /\ \A w \in Workers : coords[w] = <<>>

\* The vertex list the chunk at c holds was meshed from a grid generated
\* wholly under the configuration in force.
MeshedFromCurrent(c) ==
    /\ Len(m_chunks[c].mesh) >= 2
    /\ m_chunks[c].mesh[1] = "terrain"
    /\ m_chunks[c].mesh[2] = noise

\* C11: reload-all outcome.  After a parameter change and its reloadAllChunks,
\* with the viewpoint fixed, once nothing is in flight any more every chunk of
\* the collection is Resident and the geometry it holds was meshed from block
\* data generated after the reload.
C11_ReloadOutcome ==
    (noise >= 1 /\ Quiescent) =>
        \A c \in DOMAIN m_chunks : Resident(c) /\ MeshedFromCurrent(c)

\* The Euclidean distance, in chunks, of two coordinates of the row.
GridDistance(c, px) == Abs(c[1] - px)

\* C12: collection bounds after every update.  When update has returned, the
\* collection contains every coordinate within renderDistance of the
\* viewpoint's chunk and none beyond renderDistance + 2; and a call neither
\* creates nor removes a chunk at a distance in between.
C12_CollectionBounds ==
    /\ [](m_chunks # <<>> =>
             /\ \A x \in (playerChunk - ScanRadius)..(playerChunk + ScanRadius) :
                    Coord(x) \in DOMAIN m_chunks
             /\ \A c \in DOMAIN m_chunks :
                    GridDistance(c, playerChunk) <= ScanRadius + UnloadMargin)
    /\ [][\A c \in DOMAIN m_chunks \cup DOMAIN m_chunks' :
              (/\ GridDistance(c, playerChunk') > ScanRadius
               /\ GridDistance(c, playerChunk') <= ScanRadius + UnloadMargin)
                  => (c \in DOMAIN m_chunks <=> c \in DOMAIN m_chunks')]_vars

\* A step in which update calls Chunk::uploadMesh.
Uploads == Leaves(Main, "u_up") /\ task.chunkCoords \in DOMAIN m_chunks

\* A step in which update returns.
Returns == pc[Main] # "idle" /\ pc'[Main] = "idle"

\* C13: upload throttling.  The loop counter counts the calls of uploadMesh
\* made by the current call of update and starts from 0 in each call; no call
\* of uploadMesh is made once it has reached MAX_UPLOAD_PER_FRAME; and the
\* records update does not take stay in the upload queue in their order: the
\* queue changes only by update taking its front record or by a record being
\* added at its back.
C13_UploadThrottling ==
    /\ [](pc[Main] = "idle" => i = 0)
    /\ [][/\ Uploads => (i < MAX_UPLOAD_PER_FRAME /\ i' = i + 1)
          /\ (~Uploads /\ ~Returns) => i' = i
          /\ \/ m_uploadQueue' = m_uploadQueue
             \/ /\ Leaves(Main, "u_pop")
                /\ m_uploadQueue # <<>>
                /\ m_uploadQueue' = Tail(m_uploadQueue)
             \/ /\ Len(m_uploadQueue') = Len(m_uploadQueue) + 1
                /\ SubSeq(m_uploadQueue', 1, Len(m_uploadQueue)) = m_uploadQueue]_vars

\* update is at its loop test having made MAX_UPLOAD_PER_FRAME uploads in
\* this call, and a record is still waiting in the upload queue.
C13_Witness ==
    /\ pc[Main] = "u_upload_test"
    /\ i = MAX_UPLOAD_PER_FRAME
    /\ m_uploadQueue # <<>>

\* C14: bounded drain.  In one call update takes at most
\* MAX_UPLOAD_PER_FRAME records off the upload queue, the records it drops
\* because their chunk is gone included.
C14_BoundedDrain == drained <= MAX_UPLOAD_PER_FRAME

\* A step that destroys a Chunk (its geometry handles are released) or gives
\* one a vertex list (Chunk::uploadMesh).
GpuStep ==
    \E c \in DOMAIN m_chunks :
        \/ c \notin DOMAIN m_chunks'
        \/ /\ c \in DOMAIN m_chunks'
           /\ \/ m_chunks'[c].mesh # m_chunks[c].mesh
              \/ m_chunks'[c].uploads # m_chunks[c].uploads

\* C16: GPU-resource operations happen only on the consumer thread.  Every
\* step that destroys a Chunk or applies uploadMesh is a step of update, at
\* its unload pass or at its upload; no worker takes part in it.
C16_GpuOnConsumerThread ==
    [][GpuStep => /\ pc[Main] \in {"u_unload", "u_up"}
                  /\ pc'[Main] # pc[Main]
                  /\ \A w \in Workers : pc'[w] = pc[w]]_vars

\* update is about to hand a vertex list to a chunk of the collection while
\* a meshing worker holds a finished vertex list of its own.
C16_Witness ==
    /\ pc[Main] = "u_up"
    /\ task.chunkCoords \in DOMAIN m_chunks
    /\ \E w \in m_meshingWorkers : pc[w] \in {"push_lock", "push"}

\* C15: the sampler configuration is quiesced before it is changed.  The
\* consumer thread is never inside updateNoiseGenerators while a generation
\* worker is inside Chunk::generate.
C15_QuiescedBeforeChange ==
    ~(pc[Main] = "n_update" /\ \E w \in m_generationWorkers : pc[w] = "generating")

----------------------------------------------------------------------------
(* Chunk accessors *)

\* The call recorded in c was made with a coordinate outside the grid.
OutOfRange(c) == c.at # <<>> /\ ~InRange(c.at[1], c.at[2], c.at[3])

\* C20: the chunk accessors are total on out-of-range coordinates.  Called
\* with a coordinate outside the grid, negative or very large, getBlock
\* returns 0 and setBlock leaves the grid and the dirty flag as they were;
\* neither touches an element of m_blocks.
C20_AccessorsTotal ==
    /\ [](call # <<>> /\ OutOfRange(call) =>
             /\ call.accessed = <<>>
             /\ call.op = "getBlock" => call.result = 0)
    /\ [][(call' # <<>> /\ call'.op = "setBlock" /\ OutOfRange(call'))
              => (m_blocks' = m_blocks /\ m_dirty' = m_dirty)]_vars

\* setBlock has just been called with a coordinate beyond the size on a grid
\* that holds a block and whose dirty flag is clear.
C20_Witness ==
    /\ call # <<>>
    /\ call.op = "setBlock"
    /\ call.at[2] >= GridHeight
    /\ call.result # 0
    /\ m_dirty = FALSE
    /\ \E c \in Cells : m_blocks[c] # 0

----------------------------------------------------------------------------
(* Greedy scan *)

\* The number of visible cells of mask m.
VisibleCount(m) == Cardinality({p \in DOMAIN m : m[p].visible})

\* Two visible cells of m that share an edge carry the same block id.
AdjacentSameId(m, width) ==
    \E p, q \in DOMAIN m :
        /\ m[p].visible /\ m[q].visible /\ m[p].id = m[q].id
        /\ \/ q = p + 1 /\ (p - 1) % width # width - 1
           \/ q = p + width

\* C18: for every mask, greedyScan2D emits at most as many rectangles as the
\* mask has visible cells, and as many only if no two edge-adjacent visible
\* cells of the mask carry the same block id.
C18_QuadCountBound ==
    [][(call' # <<>> /\ call'.op = "greedyScan2D") =>
          /\ Len(emitted') <= VisibleCount(mask)
          /\ Len(emitted') = VisibleCount(mask) => ~AdjacentSameId(mask, ScanWidth)]_vars

\* A scan has merged cells both ways into one rectangle and emitted others
\* besides it.
C18_Witness ==
    /\ call # <<>>
    /\ call.op = "greedyScan2D"
    /\ Len(emitted) >= 3
    /\ \E k \in DOMAIN emitted : emitted[k].w >= 2 /\ emitted[k].h >= 2

\* The mask index of cell (x, y), and whether rectangle r covers index p.
MaskIndex(width, x, y) == y * width + x + 1
RectCovers(r, width, p) ==
    /\ (p - 1) % width \in r.x..(r.x + r.w - 1)
    /\ (p - 1) \div width \in r.y..(r.y + r.h - 1)

\* Cell p of mask m is visible, carries id, and lies in none of the first
\* n rectangles of rects: it can still be merged when rectangle n + 1 is cut.
Mergeable(m, width, rects, n, p, id) ==
    /\ m[p].visible
    /\ m[p].id = id
    /\ \A k \in 1..n : ~RectCovers(rects[k], width, p)

\* rects is what the merge rule makes of mask m: rectangle n starts at the
\* first cell in row-major order that is visible and in no earlier rectangle,
\* carries that cell's id, runs right as far as the cells of its row can be
\* merged, and then down as far as every cell of the next row under it can.
MergeRule(m, width, height, rects) ==
    \A n \in DOMAIN rects :
        LET r == rects[n]
            o == MaskIndex(width, r.x, r.y)
            Can(p) == Mergeable(m, width, rects, n - 1, p, r.id)
        IN  /\ r.x \in 0..(width - 1) /\ r.y \in 0..(height - 1)
            /\ r.w >= 1 /\ r.h >= 1
            /\ r.x + r.w <= width /\ r.y + r.h <= height
            /\ m[o].visible /\ m[o].id = r.id
            /\ \A p \in 1..(o - 1) :
                  m[p].visible => \E k \in 1..(n - 1) : RectCovers(rects[k], width, p)
            /\ \A dx \in 0..(r.w - 1) : Can(MaskIndex(width, r.x + dx, r.y))
            /\ r.x + r.w < width => ~Can(MaskIndex(width, r.x + r.w, r.y))
            /\ \A dy \in 0..(r.h - 1) : \A dx \in 0..(r.w - 1) :
                  Can(MaskIndex(width, r.x + dx, r.y + dy))
            /\ r.y + r.h < height =>
                  \E dx \in 0..(r.w - 1) : ~Can(MaskIndex(width, r.x + dx, r.y + r.h))

\* C23: greedyScan2D follows the merge rule.  It visits the cells in
\* row-major order; each cell that is still visible becomes the origin of a
\* rectangle of its id whose width is the longest run of mergeable cells in
\* its row and whose height is then the largest for which every row under
\* that run is mergeable; every visible cell ends up in a rectangle, the scan
\* leaves no cell visible and changes no id.
C23_GreedyMergeRule ==
    [][(call' # <<>> /\ call'.op = "greedyScan2D") =>
          /\ MergeRule(mask, ScanWidth, ScanHeight, emitted')
          /\ \A p \in DOMAIN mask :
                mask[p].visible => \E k \in DOMAIN emitted' : RectCovers(emitted'[k], ScanWidth, p)
          /\ DOMAIN mask' = DOMAIN mask
          /\ \A p \in DOMAIN mask : ~mask'[p].visible /\ mask'[p].id = mask[p].id]_vars

\* A scan has cut a rectangle two cells wide and one row tall at the origin
\* and another of the same id right under its first cell: growing down first
\* would have merged those two cells.
C23_Witness ==
    /\ call # <<>>
    /\ call.op = "greedyScan2D"
    /\ \E k, l \in DOMAIN emitted :
          /\ emitted[k].x = 0 /\ emitted[k].y = 0 /\ emitted[k].w = 2 /\ emitted[k].h = 1
          /\ emitted[l].x = 0 /\ emitted[l].y = 1 /\ emitted[l].id = emitted[k].id

----------------------------------------------------------------------------
(* Greedy mesh *)

\* The quads of outVertices, six vertices each, read back from the vertices:
\* the face a quad lies on from its normal, the block id from its tile, and
\* the corners from the least and the greatest vertex position on each axis.
QuadCount == Len(outVertices) \div 6
QuadVertex(k, j) == outVertices[6 * (k - 1) + j]
QuadNormal(k) == QuadVertex(k, 1).normal
QuadId(k) == QuadVertex(k, 1).texCoord.tile[1]
QuadLo(k, axis) ==
    CHOOSE v \in {QuadVertex(k, j).position[axis] : j \in 1..6} :
        \A j \in 1..6 : v <= QuadVertex(k, j).position[axis]
QuadHi(k, axis) ==
    CHOOSE v \in {QuadVertex(k, j).position[axis] : j \in 1..6} :
        \A j \in 1..6 : v >= QuadVertex(k, j).position[axis]

\* The coordinates, on one axis, of the blocks whose unit face quad k covers:
\* the block behind the plane on the quad's own axis, the blocks between the
\* corners on the other two.
QuadSpan(k, axis) ==
    IF QuadNormal(k)[axis] = 1 THEN {QuadLo(k, axis) - 1}
    ELSE IF QuadNormal(k)[axis] = 0 - 1 THEN {QuadLo(k, axis)}
    ELSE QuadLo(k, axis)..(QuadHi(k, axis) - 1)
QuadCovers(k) == QuadSpan(k, 1) \X QuadSpan(k, 2) \X QuadSpan(k, 3)

\* The quads of outVertices, each with its normal, block id and covered blocks.
Quads ==
    [k \in 1..QuadCount |->
        [normal |-> QuadNormal(k), id |-> QuadId(k), covers |-> QuadCovers(k)]]

\* The naive rule: the face of block c towards normal n is drawn iff c is
\* opaque and the block next to it in that direction is not.
NaiveVisible(n, c) ==
    /\ isOpaque(m_blocks[c])
    /\ ~isOpaque(getBlockWithNeighbors(c[1] + n[1], c[2] + n[2], c[3] + n[3]))

Normals == {FACE_NORMALS[BlockFace[f]] : f \in DOMAIN BlockFace}

\* C17: the quads buildGreedyMesh emits cover, for each of the six face
\* orientations, exactly the unit faces the naive rule draws: a block that is
\* opaque with a non-opaque neighbour in the direction is covered by exactly
\* one quad of that orientation, which carries its block id; no other cell is
\* covered, so no face lies between two opaque blocks or on a non-opaque one.
C17_GreedyEqualsNaive ==
    (call # <<>> /\ call.op = "buildGreedyMesh") =>
        LET quads == Quads
        IN  /\ Len(outVertices) = 6 * QuadCount
            /\ \A k \in DOMAIN quads :
                  quads[k].normal \in Normals /\ quads[k].covers \subseteq Cells
            /\ \A n \in Normals : \A c \in Cells :
                  LET covering ==
                          {k \in DOMAIN quads : quads[k].normal = n /\ c \in quads[k].covers}
                  IN  IF NaiveVisible(n, c)
                      THEN /\ Cardinality(covering) = 1
                           /\ \A k \in covering : quads[k].id = m_blocks[c]
                      ELSE covering = {}

\* A mesh has been built of a grid that holds two different opaque blocks, a
\* non-opaque block that is not air, and a pair of opaque blocks side by side,
\* and one of its quads covers more than one block.
C17_Witness ==
    /\ call # <<>>
    /\ call.op = "buildGreedyMesh"
    /\ \E c, d \in Cells : isOpaque(m_blocks[c]) /\ isOpaque(m_blocks[d]) /\ m_blocks[c] # m_blocks[d]
    /\ \E c \in Cells : m_blocks[c] # 0 /\ ~isOpaque(m_blocks[c])
    /\ \E c \in Cells : c[1] = 0 /\ isOpaque(m_blocks[c]) /\ isOpaque(m_blocks[<<1, c[2], c[3]>>])
    /\ \E k \in DOMAIN Quads : Cardinality(Quads[k].covers) >= 2
    /\ \E c \in OutsideCells : isOpaque(outside[c])

\* Every cell of mask m is visible and all carry one block id.
UniformMask(m) == \A p \in DOMAIN m : m[p].visible /\ m[p].id = m[1].id

\* The axis a face's normal points along, and the size of the grid on an axis.
AxisOf(face) == CHOOSE axis \in 1..3 : FACE_NORMALS[face][axis] # 0
Extent(axis) == IF axis = 2 THEN GridHeight ELSE GridSize

\* The quads of outVertices that lie on the faces of slice `plane` turned
\* towards `face`.
LayerQuads(face, plane) ==
    {k \in 1..QuadCount :
        QuadNormal(k) = FACE_NORMALS[face] /\ QuadSpan(k, AxisOf(face)) = {plane}}

\* C19: whenever every cell of a layer's mask is visible and all cells carry
\* the same block id, the pass for that layer and orientation emits exactly
\* one quad, and its corners span the whole extent of the mask.
C19_UniformLayerOneQuad ==
    (call # <<>> /\ call.op = "buildGreedyMesh") =>
        \A f \in DOMAIN PassOrder : \A plane \in 0..(Planes(PassOrder[f]) - 1) :
            UniformMask(BuildMask(PassOrder[f], plane)) =>
                /\ Cardinality(LayerQuads(PassOrder[f], plane)) = 1
                /\ \A k \in LayerQuads(PassOrder[f], plane) :
                      \A axis \in (1..3) \ {AxisOf(PassOrder[f])} :
                          QuadLo(k, axis) = 0 /\ QuadHi(k, axis) = Extent(axis)

\* A mesh has been built of a grid whose top layer is all one opaque block
\* over a lower layer that is not uniform.
C19_Witness ==
    /\ call # <<>>
    /\ call.op = "buildGreedyMesh"
    /\ UniformMask(BuildMask("Top", GridHeight - 1))
    /\ ~UniformMask(BuildMask("Bottom", 0))
    /\ \E c \in Cells : m_blocks[c] = 0
    /\ QuadCount >= 3

----------------------------------------------------------------------------
(* Terrain generation *)

\* C22: the height sampleColumn returns is in the vertical range of the chunk
\* that consumes it, 0 <= height <= CHUNK_HEIGHT - 1, whatever the noise
\* height and the water level.
C22_HeightInRange ==
    (call # <<>> /\ call.op = "sampleColumn") =>
        (0 <= call.result.height /\ call.result.height <= CHUNK_HEIGHT - 1)

\* The surface sample of the chunk's column (x, z).
ColumnSample(x, z) ==
    sampleColumn(surface, chunkPos[1] * GridSize + x, chunkPos[3] * GridSize + z)

\* The highest cell of column (x, z) that is not air, -1 if all are air.
HighestBlock(x, z) ==
    LET solid == {y \in 0..(CHUNK_HEIGHT - 1) : m_blocks[<<x, y, z>>] # 0}
    IN  IF solid = {} THEN 0 - 1 ELSE CHOOSE y \in solid : \A v \in solid : v <= y

\* C24: after generate every column is layered by its sample s: the highest
\* cell that is not air is at s.height and holds s.topBlock, the three levels
\* beneath hold s.fillerBlock, every lower cell holds s.stoneBlock and every
\* cell above the surface is air.
C24_ColumnLayering ==
    (call # <<>> /\ call.op = "generate") =>
        \A x, z \in 0..(GridSize - 1) :
            LET s == ColumnSample(x, z)
            IN  /\ HighestBlock(x, z) = s.height
                /\ \A y \in 0..(CHUNK_HEIGHT - 1) :
                      m_blocks[<<x, y, z>>] =
                          IF y > s.height THEN 0
                          ELSE IF y = s.height THEN s.topBlock
                          ELSE IF y >= s.height - 3 THEN s.fillerBlock
                          ELSE s.stoneBlock

\* The grids a chunk can hold before it is generated, as far as a cell goes:
\* air everywhere, or a block everywhere.
PriorGrids == {[c \in GenCells |-> b] : b \in {0, getBlockByName("Stone")}}

\* C21: generate is idempotent and independent of history.  The grid a call
\* of generate leaves is the one it would have left on any other prior grid,
\* so it depends on the chunk coordinate and the sampler only, and a second
\* call with the same sampler leaves it as it is.
C21_GenerateIdempotent ==
    [][(call' # <<>> /\ call'.op = "generate") =>
          /\ \A prior \in PriorGrids : generate(prior, chunkPos, surface) = m_blocks'
          /\ generate(m_blocks', chunkPos, surface) = m_blocks']_vars

\* generate has changed more cells than it left holding a block: it has
\* turned cells that held a block into air.
C21_Witness ==
    /\ call # <<>>
    /\ call.op = "generate"
    /\ call.result > Cardinality({c \in GenCells : m_blocks[c] # 0})
    /\ \E c \in GenCells : m_blocks[c] # 0

----------------------------------------------------------------------------
(* Block query *)

\* The block stored at the integer world position: floored division names
\* the chunk, floored modulo the cell
StoredAt(x, y, z) ==
    LET chunkCoords == <<x \div GridSize, 0, z \div GridSize>>
        local == <<x % GridSize, y, z % GridSize>>
    IN  IF chunkCoords \in DOMAIN m_chunks /\ y >= 0 /\ y < GridHeight
        THEN m_chunks[chunkCoords].blocks[local]
        ELSE 0

\* C25: ChunkManager::getBlock resolves every integer world position, of
\* either sign, to the chunk floor(x/size), 0, floor(z/size) and the local
\* cell x mod size, y, z mod size, returns the block stored there, 0 when the
\* chunk is absent or y is out of range; and the query of the world position
\* of a chunk's cell returns that cell of that chunk.
C25_WorldToChunkRoundTrip ==
    /\ (call # <<>> /\ call.op = "ChunkManager::getBlock") =>
          LET x == call.at[1]
              y == call.at[2]
              z == call.at[3]
          IN  /\ call.accessed[1] = <<x \div GridSize, 0, z \div GridSize>>
              /\ call.accessed[2] = <<x % GridSize, y, z % GridSize>>
              /\ call.accessed[1][1] * GridSize + call.accessed[2][1] = x
              /\ call.accessed[1][3] * GridSize + call.accessed[2][3] = z
              /\ call.result = StoredAt(x, y, z)
    /\ (call # <<>> /\ call.op = "getBlockWorldPosition") =>
          call.result = m_chunks[call.at[1]].blocks[call.at[2]]

\* C25 for the positions every float holds exactly
C25_NearPositions ==
    (call # <<>> /\ call.op = "ChunkManager::getBlock"
        /\ call.at[1] < 2^24 /\ call.at[1] > 0 - 2^24) =>
          /\ call.accessed[1] = <<call.at[1] \div GridSize, 0, call.at[3] \div GridSize>>
          /\ call.accessed[2] = <<call.at[1] % GridSize, call.at[2], call.at[3] % GridSize>>
          /\ call.result = StoredAt(call.at[1], call.at[2], call.at[3])
----------------------------------------------------------------------------
(* Worker pools *)

\* C28: whatever hardware_concurrency() returned, the constructor has started
\* the two generation workers and at least one meshing worker.
C28_MeshingPoolNeverEmpty ==
    /\ Cardinality(m_generationWorkers) = 2
    /\ m_meshingWorkers # {}

\* The pool is not empty when hardware_concurrency() is above 2.
C28_PoolWithSpareThreads == hw > 2 => Cardinality(m_meshingWorkers) = hw - 2
----------------------------------------------------------------------------
(* Access to a grid under generation *)

\* Worker g is inside Chunk::generate on the chunk at c, some of its columns
\* written and some not yet
Generating(g, c) ==
    /\ IsGen(g)
    /\ pc[g] = "generating"
    /\ chunkPtr[g] = "valid"
    /\ coords[g] = c

\* Meshing worker w is inside buildGreedyMesh on the chunk at c: it has begun
\* to read the chunk's cells and has not built the last face
Meshing(w, c) ==
    /\ ~IsGen(w)
    /\ pc[w] \in {"nbw_lock", "nbw_read", "nbe_lock", "nbe_read"}
    /\ chunkPtr[w] = "valid"
    /\ coords[w] = c

\* Meshing worker w is inside getBlock, reading a border cell of the chunk at
\* c for the mesh of a chunk next to it
ReadingBorder(w, c) ==
    /\ ~IsGen(w)
    /\ \/ pc[w] = "nbw_read" /\ Coord(coords[w][1] - 1) = c
       \/ pc[w] = "nbe_read" /\ Coord(coords[w][1] + 1) = c
    /\ c \in DOMAIN m_chunks

\* C26: while a generation worker is writing a chunk's grid in
\* Chunk::generate, no other thread reads or writes that grid: no second
\* generation worker generates the chunk, no meshing worker meshes it, and
\* none reads its border cells for a neighbouring chunk.
C26_NoAccessWhileGenerating ==
    \A g \in m_generationWorkers : \A c \in DOMAIN m_chunks :
        Generating(g, c) =>
            \A w \in Workers \ {g} :
                ~(Generating(w, c) \/ Meshing(w, c) \/ ReadingBorder(w, c))
----------------------------------------------------------------------------
(* Uploaded geometry *)

\* The vertex list last uploaded to the chunk at c was read from a grid that
\* a generate had written wholly, under the configuration of the grid the
\* chunk holds.
MeshedFromOwnGrid(c) ==
    /\ Len(m_chunks[c].mesh) >= 2
    /\ m_chunks[c].mesh[1] = "terrain"
    /\ m_chunks[c].mesh[2] = m_chunks[c].config

\* C27: when the pipeline is quiescent, the geometry of every chunk that has
\* received an upload was meshed from that chunk after its latest generate
\* completed: never from an ungenerated or partly generated grid, nor from
\* another chunk instance.
C27_UploadMatchesChunk ==
    Quiescent =>
        \A c \in DOMAIN m_chunks : Resident(c) => MeshedFromOwnGrid(c)
----------------------------------------------------------------------------
(* Border faces *)

\* The faces built toward a neighbouring chunk whose cells read as `read`
\* are not those its cells call for now: against an absent or ungenerated
\* neighbour (air) every opaque border cell has its face, against generated
\* terrain the cells facing an opaque cell have none.
FacesDisagree(read, now) ==
    \/ read = "empty" /\ now = "terrain"
    \/ read = "terrain" /\ now = "empty"

\* C30: when the pipeline is quiescent, the geometry of every chunk holding
\* some has, on the borders toward x - 1 and x + 1, exactly the faces that the
\* blocks now stored in the neighbouring chunks call for (air where no chunk
\* is loaded), whatever the order of generation, meshing and eviction was.
C30_BorderFacesConsistent ==
    Quiescent =>
        \A c \in DOMAIN m_chunks :
            (Resident(c) /\ Len(m_chunks[c].mesh) = 4) =>
                /\ ~FacesDisagree(m_chunks[c].mesh[3], getBlock(Coord(c[1] - 1)))
                /\ ~FacesDisagree(m_chunks[c].mesh[4], getBlock(Coord(c[1] + 1)))
----------------------------------------------------------------------------
(* Wakeup of the meshing pool *)

\* A generation worker has pushed c onto the meshing queue and no meshing
\* worker has popped it yet
InMeshingQueue(c) == \E k \in 1..Len(m_meshingQueue) : m_meshingQueue[k] = c

\* A meshing worker has popped c and is working on it
PoppedByMesher(c) == \E w \in m_meshingWorkers : coords[w] = c

\* C29: with a meshing worker and no shutdown, every coordinate pushed onto the
\* meshing queue is eventually popped by a meshing worker, on the strength of
\* the notify_one that went with the push alone.
C29_NoLostWakeup ==
    \A c \in {Coord(x) : x \in PlayerChunks} :
        InMeshingQueue(c) ~> PoppedByMesher(c)
====
